---- MODULE Spec2Model ----
(***************************************************************************)
(* Kalshi order-book collector and its offline analytics.                  *)
(*                                                                         *)
(*  - OrderbookDatabase (src/kalshi_database.py): the in-memory book       *)
(*    orderbook_state, the orderbook_snapshots table, and the two          *)
(*    mutations initialize_orderbook_from_snapshot / update_orderbook_state*)
(*  - MyClient (src/kalshi_database.py): on_message, the handler of the    *)
(*    feed's messages, with the lifecycle handling and the counters.       *)
(*  - process_data (src/analyze_slippage.py): best prices, the backward    *)
(*    as-of join of trades against snapshots, side, slippage and markouts. *)
(***************************************************************************)
EXTENDS Integers, Sequences, FiniteSets, TLC

VARIABLES
    orderbook_state,      \* {ticker: {"yes": {price: size}, "no": {price: size}}}
    orderbook_snapshots,  \* the orderbook_snapshots table, in insertion (id) order
    applied,              \* history: the in-memory book of the row's ticker right after
                          \* the mutation that inserted row i
    now,                  \* int(datetime.now().timestamp())
    last_call,            \* history: the last engine call and the size it read
    trades_df,            \* process_data: the trades frame
    snapshots_df,         \* process_data: the snapshots frame
    merged_df,            \* process_data: the merged frame
    pc,                   \* the analysis scripts: position in the script
    snapshot_rows,        \* history: the snapshot rows as load_data returned them
    base_trades,          \* analyze_imbalance: the trades of the base ticker
    linked_trades,        \* analyze_imbalance: the trades of the linked ticker
    combined_df,          \* analyze_imbalance: the combined frame
    trades,               \* the trades table, in insertion (id) order
    market_tickers,       \* MyClient.market_tickers
    determined_markets,   \* MyClient.determined_markets
    active_markets,       \* MyClient.active_markets
    trade_count,          \* MyClient.trade_count
    snapshot_count,       \* MyClient.snapshot_count
    delta_count,          \* MyClient.delta_count
    other_count,          \* MyClient.other_count
    message_id,           \* Client.message_id, the id of the next command
    sent,                 \* the commands written to the websocket, in order
    ws_closed,            \* self.ws.close() has been called
    handlers,             \* the on_message coroutines: message, position, locals
    hourly,               \* plot_results: the hourly markout curves drawn
    metrics_df,           \* imbalance_predictability: the frame of calculate_metrics
    df_resampled,         \* imbalance_predictability: the 1-second grid
    correlations,         \* imbalance_predictability: the sample of each correlation
    base_ticker,          \* analyze_imbalance: the ticker given on the command line
    trade_tickers,        \* the distinct tickers of the trades table
    linked_ticker,        \* analyze_imbalance: what find_linked_ticker returned
    delta_log             \* history: the deltas a caller applied to one level, in order

clientVars == <<trades, market_tickers, determined_markets, active_markets,
                trade_count, snapshot_count, delta_count, other_count,
                message_id, sent, ws_closed, handlers>>

scriptVars == <<hourly, metrics_df, df_resampled, correlations, base_ticker,
                trade_tickers, linked_ticker>>

vars == <<orderbook_state, orderbook_snapshots, applied, now, last_call, delta_log,
          trades_df, snapshots_df, merged_df, pc, snapshot_rows,
          base_trades, linked_trades, combined_df, clientVars, scriptVars>>

engineVars == <<orderbook_state, orderbook_snapshots, applied, now, last_call, delta_log>>
imbalanceVars == <<base_trades, linked_trades, combined_df>>
analysisVars == <<trades_df, snapshots_df, merged_df, pc, snapshot_rows, imbalanceVars,
                  scriptVars>>

----------------------------------------------------------------------------
(* Bounds of the model *)

MaxRows == 2        \* rows the orderbook_snapshots table may hold
MaxTime == 1        \* wall clock and message timestamps range over 0..MaxTime
MaxDelta == 2       \* deltas range over -MaxDelta..MaxDelta
MaxSize == 1        \* sizes carried by snapshot messages range over 0..MaxSize
MaxPrice == 2       \* prices range over 1..MaxPrice
MaxLevels == 2      \* levels one snapshot message carries, both sides together

Tickers == {"KX-A", "KX-B"}
Sides == {"yes", "no"}
Prices == 1..MaxPrice
Deltas == (0 - MaxDelta)..MaxDelta
Times == 0..MaxTime

EmptyMap == [p \in {} |-> 0]
EmptyBook == [yes |-> EmptyMap, no |-> EmptyMap]

----------------------------------------------------------------------------
(* Python dict and list helpers *)

\* dict.get(key, default)
DictGet(d, key, default) == IF key \in DOMAIN d THEN d[key] ELSE default

\* d[key] = value
DictSet(d, key, value) == (key :> value) @@ d

\* d.pop(key, None)
DictPop(d, key) == [k \in (DOMAIN d) \ {key} |-> d[k]]

MinOf(S) == CHOOSE x \in S : \A y \in S : x <= y
MaxOf(S) == CHOOSE x \in S : \A y \in S : y <= x

\* [[p, s] for p, s in sorted(d.items())]: the items of a dict, ascending by key
RECURSIVE SortedItems(_)
SortedItems(d) ==
    IF DOMAIN d = {} THEN <<>>
    ELSE LET p == MinOf(DOMAIN d)
         IN  <<<<p, d[p]>>>> \o SortedItems(DictPop(d, p))

----------------------------------------------------------------------------
(* Feed messages *)

\* the [price, size] arrays of an orderbook_snapshot message: one entry per price,
\* in any order, size 0 included
LevelArrays ==
    {a \in UNION {[1..n -> Prices \X (0..MaxSize)] : n \in 0..MaxLevels} :
        \A i, j \in 1..Len(a) : (i # j) => (a[i][1] # a[j][1])}

\* msg of an orderbook_snapshot message; a side with no levels may be left out
SnapshotMsgs ==
    {m \in UNION {[S -> LevelArrays] : S \in SUBSET Sides} :
        /\ \A k \in DOMAIN m : (m[k] = <<>>) => (k = "no")
        /\ Len(DictGet(m, "yes", <<>>)) + Len(DictGet(m, "no", <<>>)) <= MaxLevels}

\* the "ts" field of an orderbook_delta message: left out or empty, not ISO-8601,
\* or '2025-11-08T14:36:53.091704Z' given as seconds and microseconds
TsStrings ==
    {[kind |-> "empty", sec |-> 0, micro |-> 0],
     [kind |-> "malformed", sec |-> 0, micro |-> 0]}
    \cup {[kind |-> "iso", sec |-> s, micro |-> u] : s \in Times, u \in {0, 500000}}

DeltaMsgs ==
    [price : Prices, delta : Deltas, side : Sides, ts : TsStrings]

----------------------------------------------------------------------------
(* OrderbookDatabase *)

\* diff-on-write: no row for a book without levels
store_orderbook_snapshot_skip_empty(table, ticker, timestamp, snapshot) ==
    IF snapshot["yes"] = <<>> /\ snapshot["no"] = <<>> THEN table
    ELSE Append(table, [timestamp |-> timestamp, ticker |-> ticker,
                        snapshot_data |-> snapshot])

\* store_orderbook_snapshot: INSERT INTO orderbook_snapshots; the id is the position.
\* json.dumps of a dict of lists of integer pairs is read back unchanged by json.loads.
store_orderbook_snapshot(table, ticker, timestamp, snapshot) ==
    Append(table, [timestamp |-> timestamp, ticker |-> ticker, snapshot_data |-> snapshot])

\* the book of an unknown ticker created with a level in it
EnsureBookSeeded(state, ticker) ==
    IF ticker \in DOMAIN state THEN state
    ELSE DictSet(state, ticker, [yes |-> (1 :> 1), no |-> EmptyMap])

\* if ticker not in self.orderbook_state: self.orderbook_state[ticker] = {"yes": {}, "no": {}}
EnsureBook(state, ticker) ==
    IF ticker \in DOMAIN state THEN state ELSE DictSet(state, ticker, EmptyBook)

\* for price, size in levels: d[price] = size
RECURSIVE StoreLevels(_, _)
StoreLevels(d, levels) ==
    IF levels = <<>> THEN d
    ELSE StoreLevels(DictSet(d, Head(levels)[1], Head(levels)[2]), Tail(levels))

\* the in-memory part of initialize_orderbook_from_snapshot
InitializedState(state, ticker, snapshot_msg) ==
    LET s0 == EnsureBook(state, ticker)
    IN  [s0 EXCEPT ![ticker] =
            [yes |-> StoreLevels(s0[ticker].yes, DictGet(snapshot_msg, "yes", <<>>)),
             no  |-> StoreLevels(s0[ticker].no, DictGet(snapshot_msg, "no", <<>>))]]

initialize_orderbook_from_snapshot(ticker, snapshot_msg) ==
    /\ Len(orderbook_snapshots) < MaxRows
    /\ orderbook_state' = InitializedState(orderbook_state, ticker, snapshot_msg)
    /\ orderbook_snapshots' =
           store_orderbook_snapshot(orderbook_snapshots, ticker, now, snapshot_msg)
    /\ applied' = Append(applied, orderbook_state'[ticker])
    /\ last_call' = [op |-> "snapshot", ticker |-> ticker, side |-> "", price |-> 0,
                     delta |-> 0, current_size |-> 0, had_book |-> ticker \in DOMAIN orderbook_state]
    /\ UNCHANGED <<now, delta_log, analysisVars>>

\* the plain sum stored whatever its sign
UpdatedLevelsPlainSum(d, price, delta) ==
    DictSet(d, price, DictGet(d, price, 0) + delta)

\* a level with its size mistakenly kept when it reaches exactly zero
UpdatedLevelsKeepZero(d, price, delta) ==
    LET new_size == DictGet(d, price, 0) + delta
    IN  IF new_size < 0 THEN DictPop(d, price) ELSE DictSet(d, price, new_size)

\* a level overwritten with the delta, the current size not added
UpdatedLevelsIgnoreCurrent(d, price, delta) ==
    IF delta <= 0 THEN DictPop(d, price) ELSE DictSet(d, price, delta)

\* current_size = d.get(price, 0); new_size = current_size + delta; pop or store
UpdatedLevels(d, price, delta) ==
    LET current_size == DictGet(d, price, 0)
        new_size == current_size + delta
    IN  IF new_size <= 0 THEN DictPop(d, price) ELSE DictSet(d, price, new_size)

\* the delta applied to both sides of the market
UpdatedStateBothSides(state, ticker, delta_msg) ==
    LET s0 == EnsureBook(state, ticker)
    IN  [s0 EXCEPT ![ticker] =
            [yes |-> UpdatedLevels(s0[ticker].yes, delta_msg.price, delta_msg.delta),
             no  |-> UpdatedLevels(s0[ticker].no, delta_msg.price, delta_msg.delta)]]

\* the in-memory part of update_orderbook_state
UpdatedState(state, ticker, delta_msg) ==
    LET s0 == EnsureBook(state, ticker)
    IN  [s0 EXCEPT ![ticker][delta_msg.side] =
            UpdatedLevels(s0[ticker][delta_msg.side], delta_msg.price, delta_msg.delta)]

\* int(datetime.fromisoformat(ts_str.replace('Z', '+00:00')).timestamp()), or the
\* wall clock when ts is empty or does not parse
ResolveTimestamp(ts_str, clock) ==
    IF ts_str.kind = "iso"
    THEN (ts_str.sec * 1000000 + ts_str.micro) \div 1000000
    ELSE clock

\* the snapshot serialised with the levels in descending price order
BookSnapshotDescending(book) ==
    LET Rev(s) == [i \in 1..Len(s) |-> s[Len(s) + 1 - i]]
    IN  [yes |-> Rev(SortedItems(book.yes)), no |-> Rev(SortedItems(book.no))]

\* snapshot = {"yes": [[p, s] for p, s in sorted(...)], "no": [...]}
BookSnapshot(book) ==
    [yes |-> SortedItems(book.yes), no |-> SortedItems(book.no)]

update_orderbook_state(ticker, delta_msg) ==
    /\ Len(orderbook_snapshots) < MaxRows
    /\ orderbook_state' = UpdatedState(orderbook_state, ticker, delta_msg)
    /\ orderbook_snapshots' =
           store_orderbook_snapshot(orderbook_snapshots, ticker,
                                    ResolveTimestamp(delta_msg.ts, now),
                                    BookSnapshot(orderbook_state'[ticker]))
    /\ applied' = Append(applied, orderbook_state'[ticker])
    /\ last_call' = [op |-> "delta", ticker |-> ticker, side |-> delta_msg.side,
                     price |-> delta_msg.price, delta |-> delta_msg.delta,
                     current_size |->
                         DictGet(EnsureBook(orderbook_state, ticker)[ticker][delta_msg.side],
                                 delta_msg.price, 0),
                     had_book |-> ticker \in DOMAIN orderbook_state]
    /\ UNCHANGED <<now, delta_log, analysisVars>>

\* the wall clock advances between messages
Tick ==
    /\ now < MaxTime
    /\ now' = now + 1
    /\ UNCHANGED <<orderbook_state, orderbook_snapshots, applied, last_call, delta_log,
                   analysisVars,
                   clientVars>>

----------------------------------------------------------------------------
(* MyClient: state *)

MaxHandlers == 2    \* on_message coroutines that may be alive at once
MaxOther == 1       \* messages counted by other_count
MaxTradeRows == 1   \* rows the trades table may hold

Handlers == 1..MaxHandlers

\* market_ticker of a message; "" stands for a message without one
FeedTickers == Tickers \cup {""}

\* status in ["closed", "settled"]
TerminalStatuses == {"closed", "settled"}

\* status of a lifecycle message; "" stands for a message without one
Statuses == TerminalStatuses \cup {"active", ""}

NoMessage == [type |-> "none", market_ticker |-> "", status |-> "", ts |-> 0, body |-> <<>>]

\* a coroutine slot with no message in hand. first_terminal, emptied, send, closed,
\* dropped and current_size record what the coroutine did and read.
IdleHandler ==
    [msg |-> NoMessage, pc |-> "idle", current_size |-> 0, had_book |-> FALSE,
     first_terminal |-> FALSE,
     emptied |-> FALSE, send |-> "none", closed |-> FALSE, dropped |-> FALSE]

\* MyClient.__init__ over an empty database, for a given list of market tickers
ClientInit(tickers) ==
    /\ trades = <<>>
    /\ market_tickers = tickers
    /\ determined_markets = {}
    /\ active_markets = tickers
    /\ trade_count = 0
    /\ snapshot_count = 0
    /\ delta_count = 0
    /\ other_count = 0
    /\ message_id = 1
    /\ sent = <<>>
    /\ ws_closed = FALSE
    /\ handlers = [h \in Handlers |-> IdleHandler]

\* the client constructed and receiving nothing
ClientIdle == ClientInit(Tickers)

----------------------------------------------------------------------------
(* Specifications *)

NoCall == [op |-> "none", ticker |-> "", side |-> "", price |-> 0, delta |-> 0,
           current_size |-> 0, had_book |-> FALSE]

EngineInit ==
    /\ orderbook_state = EmptyMap
    /\ orderbook_snapshots = <<>>
    /\ applied = <<>>
    /\ now = 0
    /\ last_call = NoCall
    /\ delta_log = <<>>

\* analyze_imbalance not run
ImbalanceIdle ==
    /\ base_trades = <<>>
    /\ linked_trades = <<>>
    /\ combined_df = <<>>

\* plot_results, imbalance_predictability and find_linked_ticker not run
ScriptsIdle ==
    /\ hourly = <<>>
    /\ metrics_df = <<>>
    /\ df_resampled = <<>>
    /\ correlations = <<>>
    /\ base_ticker = <<>>
    /\ trade_tickers = {}
    /\ linked_ticker = <<>>

AnalysisIdle ==
    /\ trades_df = <<>>
    /\ snapshots_df = <<>>
    /\ merged_df = <<>>
    /\ pc = "idle"
    /\ snapshot_rows = <<>>
    /\ ImbalanceIdle
    /\ ScriptsIdle

Init == EngineInit /\ AnalysisIdle /\ ClientIdle

ApplySnapshot == \E ticker \in Tickers, m \in SnapshotMsgs :
                    /\ initialize_orderbook_from_snapshot(ticker, m)
                    /\ UNCHANGED clientVars

ApplyDelta == \E ticker \in Tickers, m \in DeltaMsgs :
                 /\ update_orderbook_state(ticker, m)
                 /\ UNCHANGED clientVars

Next == ApplySnapshot \/ ApplyDelta \/ Tick

\* the engine fed snapshot and delta messages
Spec == Init /\ [][Next]_vars

NextDeltas == ApplyDelta \/ Tick

\* the engine fed delta messages only, from the empty engine
SpecDeltas == Init /\ [][NextDeltas]_vars

MaxFoldDeltas == 3   \* deltas applied one after another to one level

\* the level the deltas go to, and the deltas: removing more than is there, removing
\* less, nothing, adding
FoldLevel == [ticker |-> "KX-A", side |-> "yes", price |-> 1]
FoldDeltas == {-5, -1, 0, 1, 3}

\* update_orderbook_state called with one more delta for the level: the level is
\* updated and the sorted book persisted
FoldDelta == \E d \in FoldDeltas :
    LET delta_msg == [price |-> FoldLevel.price, delta |-> d, side |-> FoldLevel.side,
                      ts |-> [kind |-> "empty", sec |-> 0, micro |-> 0]]
        ticker == FoldLevel.ticker
    IN  /\ Len(delta_log) < MaxFoldDeltas
        /\ orderbook_state' = UpdatedState(orderbook_state, ticker, delta_msg)
        /\ orderbook_snapshots' =
               store_orderbook_snapshot(orderbook_snapshots, ticker,
                                        ResolveTimestamp(delta_msg.ts, now),
                                        BookSnapshot(orderbook_state'[ticker]))
        /\ applied' = Append(applied, orderbook_state'[ticker])
        /\ last_call' = [op |-> "delta", ticker |-> ticker, side |-> delta_msg.side,
                         price |-> delta_msg.price, delta |-> d,
                         current_size |->
                             DictGet(EnsureBook(orderbook_state, ticker)[ticker][delta_msg.side],
                                     delta_msg.price, 0),
                         had_book |-> ticker \in DOMAIN orderbook_state]
        /\ delta_log' = Append(delta_log, d)
        /\ UNCHANGED <<now, analysisVars, clientVars>>

NextFold == FoldDelta

\* the empty engine fed a sequence of deltas on one level
SpecFold == Init /\ [][NextFold]_vars

----------------------------------------------------------------------------
(* MyClient: on_message *)

\* msg of the orderbook_snapshot and orderbook_delta messages the feed delivers
FeedSnapshotMsgs ==
    {m \in SnapshotMsgs :
        /\ DOMAIN m = Sides
        /\ m["yes"] = <<<<1, 1>>>> /\ m["no"] = <<>>}

FeedDeltaMsgs ==
    {m \in DeltaMsgs : m.price = 1 /\ m.ts.kind = "empty" /\ m.delta \in {-1, 1}}

\* the messages of each type; ts 0 stands for a trade message without a timestamp
LifecycleMessages ==
    {[type |-> "market_lifecycle_v2", market_ticker |-> t, status |-> st, ts |-> 0,
      body |-> <<>>] : t \in FeedTickers, st \in Statuses}

TradeMessages ==
    {[type |-> "trade", market_ticker |-> t, status |-> "", ts |-> ts, body |-> <<>>] :
        t \in FeedTickers, ts \in 0..1}

SnapshotMessages ==
    {[type |-> "orderbook_snapshot", market_ticker |-> t, status |-> "", ts |-> 0,
      body |-> b] : t \in FeedTickers, b \in FeedSnapshotMsgs}

DeltaMessages ==
    {[type |-> "orderbook_delta", market_ticker |-> t, status |-> "", ts |-> 0,
      body |-> b] : t \in FeedTickers, b \in FeedDeltaMsgs}

OtherMessages ==
    {[type |-> ty, market_ticker |-> "", status |-> "", ts |-> 0, body |-> <<>>] :
        ty \in {"subscribed", "ok", "error"}}

\* the INSERT never committed
store_trade_uncommitted(table, ticker, timestamp, trade_data) == table

\* store_trade: INSERT INTO trades, committed
store_trade(table, ticker, timestamp, trade_data) ==
    Append(table, [timestamp |-> timestamp, ticker |-> ticker, trade_data |-> trade_data])

\* the command naming no market
UnsubscribeMessageNoTickers(id, channels, tickers) ==
    [id |-> id, cmd |-> "unsubscribe", channels |-> channels, market_tickers |-> <<>>]

\* the command unsubscribe() writes to the websocket
UnsubscribeMessage(id, channels, tickers) ==
    [id |-> id, cmd |-> "unsubscribe", channels |-> channels, market_tickers |-> tickers]

\* update_orderbook_state awaiting between its read and its write
AwaitPcsWithDelta == {"unsubscribe", "close", "delta_write"}

\* the positions at which a coroutine is suspended in an await: the send inside
\* unsubscribe and self.ws.close()
AwaitPcs == {"unsubscribe", "close"}

Free(h) == handlers[h].pc = "idle"

\* the event loop runs h only while every other coroutine is suspended or finished
Cooperative(h) ==
    \A g \in Handlers \ {h} : handlers[g].pc \in AwaitPcs \cup {"idle"}

\* the feed loop awaits on_message before it takes the next message
Sequential(h) == \A g \in Handlers \ {h} : Free(g)

\* a message is taken off the open connection by a coroutine of its own, which
\* gets the first free slot
Take(h) ==
    /\ Free(h) /\ \A g \in Handlers : Free(g) => h <= g
    /\ Cooperative(h)
    /\ ~ ws_closed

Goto(h, m, position) == [IdleHandler EXCEPT !.msg = m, !.pc = position]

\* every terminal lifecycle message taken as the first one of its market
NewlyDeterminedRepeated(m) ==
    /\ m.type = "market_lifecycle_v2"
    /\ m.market_ticker # "" /\ m.status # ""
    /\ m.status \in TerminalStatuses

\* if ticker and status: if status in ["closed", "settled"] and ticker not in
\* self.determined_markets
NewlyDetermined(m) ==
    /\ m.type = "market_lifecycle_v2"
    /\ m.market_ticker # "" /\ m.status # ""
    /\ m.status \in TerminalStatuses
    /\ m.market_ticker \notin determined_markets

\* the check of determined_markets left out
SkipDeterminedNever(ticker, determined) == FALSE

\* if ticker and ticker in self.determined_markets: return
SkipDetermined(ticker, determined) == ticker # "" /\ ticker \in determined

\* the message reaches the dispatch on msg_type
Dispatched(m) ==
    ~ NewlyDetermined(m) /\ ~ SkipDetermined(m.market_ticker, determined_markets)

\* the connection closed after any terminal message
AllDeterminedAnyTerminal(active) == TRUE

\* the connection closed while one market is still active
AllDeterminedOffByOne(active) == Cardinality(active) <= 1

\* len(self.active_markets) == 0
AllDetermined(active) == Cardinality(active) = 0

\* the market added to determined_markets and left in active_markets
OnLifecycleDeterminedKeepActive(h, m) ==
    /\ Take(h)
    /\ NewlyDetermined(m)
    /\ determined_markets' = determined_markets \cup {m.market_ticker}
    /\ handlers' = [handlers EXCEPT ![h] =
           [Goto(h, m, "unsubscribe") EXCEPT !.first_terminal = TRUE]]
    /\ UNCHANGED <<trades, market_tickers, active_markets, trade_count, snapshot_count,
                   delta_count, other_count, message_id, sent, ws_closed, engineVars,
                   analysisVars>>

\* the market marked only after the await: the handler suspends with nothing marked
OnLifecycleDeterminedUnmarked(h, m) ==
    /\ Take(h)
    /\ NewlyDetermined(m)
    /\ handlers' = [handlers EXCEPT ![h] =
           [Goto(h, m, "unsubscribe") EXCEPT !.first_terminal = TRUE]]
    /\ UNCHANGED <<trades, market_tickers, determined_markets, active_markets,
                   trade_count, snapshot_count, delta_count,
                   other_count, message_id, sent, ws_closed, engineVars, analysisVars>>

\* a terminal lifecycle message for a market not yet determined, up to the await of
\* self.unsubscribe
OnLifecycleDetermined(h, m) ==
    /\ Take(h)
    /\ NewlyDetermined(m)
    /\ determined_markets' = determined_markets \cup {m.market_ticker}
    /\ active_markets' = active_markets \ {m.market_ticker}
    /\ handlers' = [handlers EXCEPT ![h] =
           [Goto(h, m, "unsubscribe") EXCEPT
               !.first_terminal = TRUE,
               !.emptied = (active_markets # {} /\ active_markets' = {})]]
    /\ UNCHANGED <<trades, market_tickers, trade_count, snapshot_count, delta_count,
                   other_count, message_id, sent, ws_closed, engineVars, analysisVars>>

\* the failure of the send not caught: on_message ends there, nothing is closed
UnsubscribedRaising(h) ==
    /\ handlers[h].pc = "unsubscribe"
    /\ Cooperative(h)
    /\ \E ok \in BOOLEAN :
          /\ IF ok
             THEN /\ sent' = Append(sent,
                        UnsubscribeMessage(message_id,
                            <<"trade", "orderbook_delta", "market_lifecycle_v2">>,
                            <<handlers[h].msg.market_ticker>>))
                  /\ message_id' = message_id + 1
             ELSE UNCHANGED <<sent, message_id>>
          /\ IF ok /\ AllDetermined(active_markets)
             THEN /\ ws_closed' = TRUE
                  /\ handlers' = [handlers EXCEPT ![h].pc = "close", ![h].closed = TRUE,
                                     ![h].send = "sent"]
             ELSE /\ ws_closed' = ws_closed
                  /\ handlers' = [handlers EXCEPT ![h] = IdleHandler]
    /\ UNCHANGED <<trades, market_tickers, determined_markets, active_markets,
                   trade_count, snapshot_count, delta_count, other_count,
                   engineVars, analysisVars>>

\* the resumption after self.unsubscribe: the command is sent, or the send raised and
\* the failure is printed; then the connection is closed when no market is active,
\* and the message returns at the check of determined_markets otherwise
Unsubscribed(h) ==
    /\ handlers[h].pc = "unsubscribe"
    /\ Cooperative(h)
    /\ \E ok \in BOOLEAN :
          /\ IF ok
             THEN /\ sent' = Append(sent,
                        UnsubscribeMessage(message_id,
                            <<"trade", "orderbook_delta", "market_lifecycle_v2">>,
                            <<handlers[h].msg.market_ticker>>))
                  /\ message_id' = message_id + 1
             ELSE UNCHANGED <<sent, message_id>>
          /\ IF AllDetermined(active_markets)
             THEN /\ ws_closed' = TRUE
                  /\ handlers' = [handlers EXCEPT ![h].pc = "close", ![h].closed = TRUE,
                                     ![h].send = IF ok THEN "sent" ELSE "failed"]
             ELSE /\ ws_closed' = ws_closed
                  /\ handlers' = [handlers EXCEPT ![h] = IdleHandler]
    /\ UNCHANGED <<trades, market_tickers, determined_markets, active_markets,
                   trade_count, snapshot_count, delta_count, other_count,
                   engineVars, analysisVars>>

\* the resumption after self.ws.close(), up to the return
Closed(h) ==
    /\ handlers[h].pc = "close"
    /\ Cooperative(h)
    /\ handlers' = [handlers EXCEPT ![h] = IdleHandler]
    /\ UNCHANGED <<trades, market_tickers, determined_markets, active_markets,
                   trade_count, snapshot_count, delta_count, other_count,
                   message_id, sent, ws_closed, engineVars, analysisVars>>

\* a message for a determined market reaches the return before the dispatch
OnDropped(h, m) ==
    /\ Take(h)
    /\ ~ NewlyDetermined(m)
    /\ SkipDetermined(m.market_ticker, determined_markets)
    /\ handlers' = [handlers EXCEPT ![h] = [Goto(h, m, "return") EXCEPT !.dropped = TRUE]]
    /\ UNCHANGED <<trades, market_tickers, determined_markets, active_markets,
                   trade_count, snapshot_count, delta_count, other_count,
                   message_id, sent, ws_closed, engineVars, analysisVars>>

\* a trade message: stored when it has a ticker and a timestamp, then counted
OnTrade(h, m) ==
    /\ Take(h)
    /\ Dispatched(m)
    /\ m.type = "trade"
    /\ IF m.market_ticker # "" /\ m.ts # 0
       THEN /\ Len(trades) < MaxTradeRows
            /\ trades' = store_trade(trades, m.market_ticker, m.ts, m)
            /\ handlers' = [handlers EXCEPT ![h] = Goto(h, m, "count")]
       ELSE UNCHANGED <<trades, handlers>>
    /\ UNCHANGED <<market_tickers, determined_markets, active_markets, trade_count,
                   snapshot_count, delta_count, other_count, message_id, sent,
                   ws_closed, engineVars, analysisVars>>

\* an orderbook_snapshot message: applied and persisted when it has a ticker
OnSnapshot(h, m) ==
    /\ Take(h)
    /\ Dispatched(m)
    /\ m.type = "orderbook_snapshot"
    /\ IF m.market_ticker # ""
       THEN /\ initialize_orderbook_from_snapshot(m.market_ticker, m.body)
            /\ handlers' = [handlers EXCEPT ![h] = Goto(h, m, "count")]
       ELSE UNCHANGED <<handlers, engineVars, analysisVars>>
    /\ UNCHANGED <<trades, market_tickers, determined_markets, active_markets,
                   trade_count, snapshot_count, delta_count, other_count,
                   message_id, sent, ws_closed>>

\* if new_size <= 0: d.pop(price, None) else: d[price] = new_size
WriteLevel(d, price, new_size) ==
    IF new_size <= 0 THEN DictPop(d, price) ELSE DictSet(d, price, new_size)

\* an orderbook_delta message with a ticker enters update_orderbook_state: the book
\* is created when absent and the current size is read
OnDelta(h, m) ==
    /\ Take(h)
    /\ Dispatched(m)
    /\ m.type = "orderbook_delta"
    /\ IF m.market_ticker # ""
       THEN /\ Len(orderbook_snapshots) < MaxRows
            /\ orderbook_state' = EnsureBook(orderbook_state, m.market_ticker)
            /\ handlers' = [handlers EXCEPT ![h] =
                   [Goto(h, m, "delta_write") EXCEPT
                       !.current_size =
                           DictGet(orderbook_state'[m.market_ticker][m.body.side],
                                   m.body.price, 0),
                       !.had_book = m.market_ticker \in DOMAIN orderbook_state]]
       ELSE UNCHANGED <<orderbook_state, handlers>>
    /\ UNCHANGED <<orderbook_snapshots, applied, now, last_call, delta_log, analysisVars,
                   trades,
                   market_tickers, determined_markets, active_markets, trade_count,
                   snapshot_count, delta_count, other_count, message_id, sent, ws_closed>>

\* update_orderbook_state: new_size = current_size + delta, the level removed or set
DeltaWrite(h) ==
    /\ handlers[h].pc = "delta_write"
    /\ Cooperative(h)
    /\ LET m == handlers[h].msg
           new_size == handlers[h].current_size + m.body.delta
       IN  orderbook_state' =
               [orderbook_state EXCEPT ![m.market_ticker][m.body.side] =
                   WriteLevel(@, m.body.price, new_size)]
    /\ handlers' = [handlers EXCEPT ![h].pc = "delta_store"]
    /\ UNCHANGED <<orderbook_snapshots, applied, now, last_call, delta_log, analysisVars,
                   trades,
                   market_tickers, determined_markets, active_markets, trade_count,
                   snapshot_count, delta_count, other_count, message_id, sent, ws_closed>>

\* update_orderbook_state: the timestamp is resolved and the sorted book persisted
DeltaStore(h) ==
    /\ handlers[h].pc = "delta_store"
    /\ Cooperative(h)
    /\ LET m == handlers[h].msg
       IN  /\ orderbook_snapshots' =
                  store_orderbook_snapshot(orderbook_snapshots, m.market_ticker,
                                           ResolveTimestamp(m.body.ts, now),
                                           BookSnapshot(orderbook_state[m.market_ticker]))
           /\ applied' = Append(applied, orderbook_state[m.market_ticker])
           /\ last_call' = [op |-> "delta", ticker |-> m.market_ticker,
                            side |-> m.body.side, price |-> m.body.price,
                            delta |-> m.body.delta,
                            current_size |-> handlers[h].current_size,
                            had_book |-> handlers[h].had_book]
    /\ handlers' = [handlers EXCEPT ![h].pc = "count"]
    /\ UNCHANGED <<orderbook_state, now, delta_log, analysisVars, trades,
                   market_tickers, determined_markets, active_markets, trade_count,
                   snapshot_count, delta_count, other_count, message_id, sent, ws_closed>>

\* self.trade_count += 1, self.snapshot_count += 1 or self.delta_count += 1, after
\* the row is committed; on_message then ends
Count(h) ==
    /\ handlers[h].pc = "count"
    /\ Cooperative(h)
    /\ LET ty == handlers[h].msg.type
       IN  /\ trade_count' = trade_count + (IF ty = "trade" THEN 1 ELSE 0)
           /\ snapshot_count' = snapshot_count + (IF ty = "orderbook_snapshot" THEN 1 ELSE 0)
           /\ delta_count' = delta_count + (IF ty = "orderbook_delta" THEN 1 ELSE 0)
    /\ handlers' = [handlers EXCEPT ![h] = IdleHandler]
    /\ UNCHANGED <<trades, market_tickers, determined_markets, active_markets,
                   other_count, message_id, sent, ws_closed, engineVars, analysisVars>>

\* the return for a determined market
Return(h) ==
    /\ handlers[h].pc = "return"
    /\ Cooperative(h)
    /\ handlers' = [handlers EXCEPT ![h] = IdleHandler]
    /\ UNCHANGED <<trades, market_tickers, determined_markets, active_markets,
                   trade_count, snapshot_count, delta_count, other_count,
                   message_id, sent, ws_closed, engineVars, analysisVars>>

\* "subscribed" and "ok" are only printed
OnConfirmation(h, m) ==
    /\ Take(h)
    /\ Dispatched(m)
    /\ m.type \in {"subscribed", "ok"}
    /\ UNCHANGED <<handlers, trades, market_tickers, determined_markets, active_markets,
                   trade_count, snapshot_count, delta_count, other_count,
                   message_id, sent, ws_closed, engineVars, analysisVars>>

\* any other type, a lifecycle message that determined nothing included
OnOther(h, m) ==
    /\ Take(h)
    /\ Dispatched(m)
    /\ m.type \notin {"trade", "orderbook_snapshot", "orderbook_delta", "subscribed", "ok"}
    /\ other_count < MaxOther
    /\ other_count' = other_count + 1
    /\ UNCHANGED <<handlers, trades, market_tickers, determined_markets, active_markets,
                   trade_count, snapshot_count, delta_count,
                   message_id, sent, ws_closed, engineVars, analysisVars>>

\* on_message from its first statement to its first suspension or return
on_message(h, m) ==
    \/ OnLifecycleDetermined(h, m)
    \/ OnDropped(h, m)
    \/ OnTrade(h, m)
    \/ OnSnapshot(h, m)
    \/ OnDelta(h, m)
    \/ OnConfirmation(h, m)
    \/ OnOther(h, m)

Receive(h) ==
    \/ \E m \in LifecycleMessages : on_message(h, m)
    \/ \E m \in TradeMessages : on_message(h, m)
    \/ \E m \in SnapshotMessages : on_message(h, m)
    \/ \E m \in DeltaMessages : on_message(h, m)
    \/ \E m \in OtherMessages : on_message(h, m)

\* a coroutine continues from where it stood
Resume(h) ==
    \/ Unsubscribed(h)
    \/ Closed(h)
    \/ DeltaWrite(h)
    \/ DeltaStore(h)
    \/ Count(h)
    \/ Return(h)

\* the client over an empty database, subscribed to some markets
ClientStart ==
    /\ EngineInit
    /\ AnalysisIdle
    /\ \E tickers \in (SUBSET Tickers) \ {{}} : ClientInit(tickers)

ReceiveInOrder == \E h \in Handlers : Sequential(h) /\ Receive(h)
ReceiveConcurrently == \E h \in Handlers : Receive(h)
Continue == \E h \in Handlers : Resume(h)

NextClient == ReceiveInOrder \/ Continue

\* the feed handled as one ordered stream: on_message is awaited for each message
\* before the next one is taken
SpecClient == ClientStart /\ [][NextClient]_vars

NextCoroutines == ReceiveConcurrently \/ Continue

\* each message handled by a coroutine of its own, the coroutines interleaving at
\* their awaits
SpecCoroutines == Init /\ [][NextCoroutines]_vars

----------------------------------------------------------------------------
(* analyze_slippage.py: load_data, get_best_prices, process_data *)

MaxSnapshots == 2   \* rows of orderbook_snapshots read for the ticker
MaxTrades == 2      \* rows of trades read for the ticker

\* a float column value: NaN (no value) or a number
NaN == <<>>
Val(x) == <<x>>
IsNaN(v) == v = <<>>
Num(v) == v[1]

\* intervals = [1, 10, 30, 60, 300]
intervals == <<1, 10, 30, 60, 300>>
IntervalSet == {intervals[k] : k \in 1..Len(intervals)}

\* timestamps of the rows: around a trade second, inside and beyond the horizons
SnapshotTimes == {1, 2, 12}
TradeTimes == {0, 1}

\* snapshot_data of a row: JSON that does not parse, or {"yes": [...], "no": [...]}
SnapshotPayloads ==
    {[ok |-> FALSE, yes |-> <<>>, no |-> <<>>],
     [ok |-> TRUE, yes |-> <<<<40, 5>>, <<45, 3>>>>, no |-> <<<<50, 2>>, <<58, 10>>>>],
     [ok |-> TRUE, yes |-> <<<<10, 1>>>>, no |-> <<>>]}

\* trade_data of a row: JSON that does not parse, or one carrying yes_price and count
TradePayloads ==
    {[ok |-> FALSE, yes_price |-> 0, count |-> 0],
     [ok |-> TRUE, yes_price |-> 40, count |-> 3],
     [ok |-> TRUE, yes_price |-> 60, count |-> 2]}

SeqsUpTo(S, n) == UNION {[1..k -> S] : k \in 0..n}

\* the rows of a table, the id being the insertion order
TableRows(seq) ==
    {[id |-> i, timestamp |-> seq[i][1], data |-> seq[i][2]] : i \in 1..Len(seq)}

\* load_data: SELECT * FROM <table> WHERE ticker = ? ORDER BY timestamp, which SQLite
\* answers from the (ticker, timestamp) index: by timestamp, then by rowid
RECURSIVE OrderByTimestamp(_)
OrderByTimestamp(rows) ==
    IF rows = {} THEN <<>>
    ELSE LET r == CHOOSE x \in rows : \A y \in rows :
                      \/ x.timestamp < y.timestamp
                      \/ (x.timestamp = y.timestamp /\ x.id <= y.id)
         IN  <<r>> \o OrderByTimestamp(rows \ {r})

\* the defaults 0 and 100 returned when json.loads raises
get_best_prices_defaults(snapshot_json) ==
    LET yes_bids == IF snapshot_json.ok THEN snapshot_json.yes ELSE <<>>
        no_bids == IF snapshot_json.ok THEN snapshot_json.no ELSE <<>>
    IN  <<Val(IF yes_bids # <<>>
              THEN MaxOf({yes_bids[i][1] : i \in 1..Len(yes_bids)}) ELSE 0),
          Val(IF no_bids # <<>>
              THEN 100 - MaxOf({no_bids[i][1] : i \in 1..Len(no_bids)}) ELSE 100)>>

\* the levels taken to be sorted ascending and the last one read
get_best_prices_last(snapshot_json) ==
    IF ~ snapshot_json.ok THEN <<NaN, NaN>>
    ELSE LET yes_bids == snapshot_json.yes
             no_bids == snapshot_json.no
         IN  <<Val(IF yes_bids # <<>> THEN yes_bids[Len(yes_bids)][1] ELSE 0),
               Val(IF no_bids # <<>> THEN 100 - no_bids[Len(no_bids)][1] ELSE 100)>>

\* get_best_prices: (best_bid, best_ask), or (None, None) when json.loads raises
get_best_prices(snapshot_json) ==
    IF ~ snapshot_json.ok THEN <<NaN, NaN>>
    ELSE LET yes_bids == snapshot_json.yes
             no_bids == snapshot_json.no
             best_bid == IF yes_bids # <<>>
                         THEN MaxOf({yes_bids[i][1] : i \in 1..Len(yes_bids)})
                         ELSE 0
             best_ask == IF no_bids # <<>>
                         THEN 100 - MaxOf({no_bids[i][1] : i \in 1..Len(no_bids)})
                         ELSE 100
         IN  <<Val(best_bid), Val(best_ask)>>

\* mid_price = (best_bid + best_ask) / 2, kept doubled so that it stays an integer
MidPrice2(prices) ==
    IF IsNaN(prices[1]) \/ IsNaN(prices[2]) THEN NaN
    ELSE Val(Num(prices[1]) + Num(prices[2]))

\* get_trade_details: (price, count), or (None, None) when json.loads raises
get_trade_details(trade_json) ==
    IF ~ trade_json.ok THEN <<NaN, NaN>>
    ELSE <<Val(trade_json.yes_price), Val(trade_json.count)>>

\* df.dropna(subset=[col]): the rows whose column has a value, in order
RECURSIVE DropNa(_, _)
DropNa(df, col) ==
    IF df = <<>> THEN <<>>
    ELSE IF IsNaN(Head(df)[col]) THEN DropNa(Tail(df), col)
         ELSE <<Head(df)>> \o DropNa(Tail(df), col)

\* the rows left in descending order of timestamp
SortValuesDescending(df) ==
    {[i \in 1..Len(df) |-> df[f[i]]] :
        f \in {g \in [1..Len(df) -> 1..Len(df)] :
                  /\ \A i, j \in 1..Len(df) : (i # j) => (g[i] # g[j])
                  /\ \A i, j \in 1..Len(df) :
                        (i < j) => (df[g[i]].timestamp >= df[g[j]].timestamp)}}

\* the frame left as it was
SortValuesOmitted(df) == {df}

\* the orders df.sort_values('timestamp') may leave the rows in: kind defaults to
\* 'quicksort', which is not stable, so rows of equal timestamp come in any order
SortValues(df) ==
    {[i \in 1..Len(df) |-> df[f[i]]] :
        f \in {g \in [1..Len(df) -> 1..Len(df)] :
                  /\ \A i, j \in 1..Len(df) : (i # j) => (g[i] # g[j])
                  /\ \A i, j \in 1..Len(df) :
                        (i < j) => (df[g[i]].timestamp <= df[g[j]].timestamp)}}

\* the join taking the first row at or after t instead
MergeAsofForward(right, t) ==
    LET later == {i \in 1..Len(right) : right[i].timestamp >= t}
    IN  IF later = {} THEN 0 ELSE MinOf(later)

\* pd.merge_asof(..., direction='backward') for one left key t over the sorted right
\* frame: the position of the last row with timestamp <= t, 0 when there is none
MergeAsof(right, t) ==
    LET earlier == {i \in 1..Len(right) : right[i].timestamp <= t}
    IN  IF earlier = {} THEN 0 ELSE MaxOf(earlier)

\* the column of the matched row, NaN when no row matched
Matched(right, pos, col) == IF pos = 0 THEN NaN ELSE right[pos][col]

\* the two choices exchanged
SideOfReversed(exec_price, mid2) ==
    IF IsNaN(mid2) THEN 0
    ELSE IF 2 * exec_price > Num(mid2) THEN -1
    ELSE IF 2 * exec_price < Num(mid2) THEN 1
    ELSE 0

\* np.select([exec > mid, exec < mid], [1, -1], default=0); a NaN mid compares False
SideOf(exec_price, mid2) ==
    IF IsNaN(mid2) THEN 0
    ELSE IF 2 * exec_price > Num(mid2) THEN 1
    ELSE IF 2 * exec_price < Num(mid2) THEN -1
    ELSE 0

\* (exec_price - mid_price) * side, doubled; NaN * 0 is NaN
Slippage2(exec_price, mid2, side) ==
    IF IsNaN(mid2) THEN NaN ELSE Val((2 * exec_price - Num(mid2)) * side)

\* the sell branch computed as the buy branch
Markout2SameSign(exec_price, future_mid2, side) ==
    IF side = 1 \/ side = -1
    THEN (IF IsNaN(future_mid2) THEN NaN ELSE Val(Num(future_mid2) - 2 * exec_price))
    ELSE Val(0)

\* np.where(side == 1, mid_h - exec, np.where(side == -1, exec - mid_h, 0)), doubled
Markout2(exec_price, future_mid2, side) ==
    IF side = 1
    THEN (IF IsNaN(future_mid2) THEN NaN ELSE Val(Num(future_mid2) - 2 * exec_price))
    ELSE IF side = -1
    THEN (IF IsNaN(future_mid2) THEN NaN ELSE Val(2 * exec_price - Num(future_mid2)))
    ELSE Val(0)

\* process_data steps 1 and 2 and the two sorts of step 3
PrepareFrames ==
    /\ pc = "loaded"
    /\ LET snaps == [i \in 1..Len(snapshots_df) |->
                        [id |-> snapshots_df[i].id,
                         timestamp |-> snapshots_df[i].timestamp,
                         best_bid |-> get_best_prices(snapshots_df[i].data)[1],
                         best_ask |-> get_best_prices(snapshots_df[i].data)[2],
                         mid_price |-> MidPrice2(get_best_prices(snapshots_df[i].data))]]
           trade_rows == [i \in 1..Len(trades_df) |->
                        [id |-> trades_df[i].id,
                         timestamp |-> trades_df[i].timestamp,
                         exec_price |-> get_trade_details(trades_df[i].data)[1],
                         count |-> get_trade_details(trades_df[i].data)[2]]]
       IN  /\ snapshots_df' \in SortValues(DropNa(snaps, "mid_price"))
           /\ trades_df' \in SortValues(DropNa(trade_rows, "exec_price"))
    /\ pc' = "sorted"
    /\ UNCHANGED <<merged_df, snapshot_rows, imbalanceVars, engineVars, clientVars, scriptVars>>

\* process_data steps 3 and 4: the as-of merge, side, slippage and slippage_paid.
\* asof_id and asof_ts name the snapshot row the merge matched (0 and NaN for none).
MergeAndSlippage ==
    /\ pc = "sorted"
    /\ merged_df' =
          [i \in 1..Len(trades_df) |->
              LET tr == trades_df[i]
                  pos == MergeAsof(snapshots_df, tr.timestamp)
                  mid == Matched(snapshots_df, pos, "mid_price")
                  side == SideOf(Num(tr.exec_price), mid)
                  slippage == Slippage2(Num(tr.exec_price), mid, side)
              IN  [id |-> tr.id, timestamp |-> tr.timestamp,
                   exec_price |-> Num(tr.exec_price), count |-> Num(tr.count),
                   mid_price |-> mid,
                   asof_id |-> IF pos = 0 THEN 0 ELSE snapshots_df[pos].id,
                   asof_ts |-> IF pos = 0 THEN NaN ELSE Val(snapshots_df[pos].timestamp),
                   side |-> side,
                   slippage |-> slippage,
                   slippage_paid |-> IF IsNaN(slippage) THEN NaN
                                     ELSE Val(Num(slippage) * Num(tr.count)),
                   future_ts |-> [h \in {} |-> NaN],
                   future_mid |-> [h \in {} |-> NaN],
                   markout |-> [h \in {} |-> NaN]]]
    /\ pc' = "merged"
    /\ UNCHANGED <<trades_df, snapshots_df, snapshot_rows, imbalanceVars, engineVars,
                   clientVars, scriptVars>>

\* process_data step 5: for each interval the as-of merge at timestamp + interval and
\* the markout. future_ts names the timestamp of the snapshot row matched.
Markouts ==
    /\ pc = "merged"
    /\ merged_df' =
          [i \in 1..Len(merged_df) |->
              LET r == merged_df[i]
                  pos(h) == MergeAsof(snapshots_df, r.timestamp + h)
              IN  [r EXCEPT
                     !.future_ts = [h \in IntervalSet |->
                         IF pos(h) = 0 THEN NaN ELSE Val(snapshots_df[pos(h)].timestamp)],
                     !.future_mid = [h \in IntervalSet |->
                         Matched(snapshots_df, pos(h), "mid_price")],
                     !.markout = [h \in IntervalSet |->
                         Markout2(r.exec_price,
                                  Matched(snapshots_df, pos(h), "mid_price"), r.side)]]]
    /\ pc' = "done"
    /\ UNCHANGED <<trades_df, snapshots_df, snapshot_rows, imbalanceVars, engineVars,
                   clientVars, scriptVars>>

\* the frames load_data returns for a ticker; a ticker with no trades or no
\* snapshots is skipped before process_data
AnalysisInit ==
    /\ \E st \in SeqsUpTo(SnapshotTimes \X SnapshotPayloads, MaxSnapshots) :
          /\ st # <<>>
          /\ snapshots_df = OrderByTimestamp(TableRows(st))
    /\ \E tt \in SeqsUpTo(TradeTimes \X TradePayloads, MaxTrades) :
          /\ tt # <<>>
          /\ trades_df = OrderByTimestamp(TableRows(tt))
    /\ merged_df = <<>>
    /\ pc = "loaded"
    /\ snapshot_rows = snapshots_df
    /\ ImbalanceIdle
    /\ ScriptsIdle
    /\ orderbook_state = EmptyMap
    /\ orderbook_snapshots = <<>>
    /\ applied = <<>>
    /\ now = 0
    /\ last_call = NoCall
    /\ delta_log = <<>>
    /\ ClientIdle

NextAnalysis == PrepareFrames \/ MergeAndSlippage \/ Markouts

\* process_data run on the trades and snapshots of one ticker
SpecAnalysis == AnalysisInit /\ [][NextAnalysis]_vars

MaxBookLevels == 2  \* levels on one side of a persisted book

\* the levels persisted books are made of, a level of size 0 included
YesLevelPool == {<<40, 5>>, <<45, 3>>, <<1, 0>>}
NoLevelPool == {<<50, 2>>, <<58, 10>>, <<99, 1>>}

\* snapshot_data: JSON that does not parse, or a book with its levels in any order
BookPayloads ==
    {[ok |-> FALSE, yes |-> <<>>, no |-> <<>>]}
    \cup {[ok |-> TRUE, yes |-> y, no |-> n] :
             y \in SeqsUpTo(YesLevelPool, MaxBookLevels),
             n \in SeqsUpTo(NoLevelPool, MaxBookLevels)}

\* trade_data of the one trade: also a price that is the mid of one of the books
ExecPayloads ==
    TradePayloads \cup {[ok |-> TRUE, yes_price |-> 50, count |-> 1]}

\* one snapshot row holding any such book, and one trade
BestPricesInit ==
    /\ \E t \in SnapshotTimes, p \in BookPayloads :
          snapshots_df = OrderByTimestamp(TableRows(<<<<t, p>>>>))
    /\ \E tt \in TradeTimes \X ExecPayloads :
          trades_df = OrderByTimestamp(TableRows(<<tt>>))
    /\ merged_df = <<>>
    /\ pc = "loaded"
    /\ snapshot_rows = snapshots_df
    /\ ImbalanceIdle
    /\ ScriptsIdle
    /\ EngineInit
    /\ ClientIdle

\* process_data run on one snapshot row and one trade
SpecBestPrices == BestPricesInit /\ [][NextAnalysis]_vars

MaxMarkoutSnapshots == 3   \* snapshot rows read for the markouts

\* books of mid 45, 55 and 53, and trades executed at 50 and at 53
MarkoutBooks ==
    {[ok |-> TRUE, yes |-> <<<<40, 5>>>>, no |-> <<<<50, 2>>>>],
     [ok |-> TRUE, yes |-> <<<<50, 1>>>>, no |-> <<<<40, 1>>>>],
     [ok |-> TRUE, yes |-> <<<<50, 1>>>>, no |-> <<<<44, 1>>>>]}

MarkoutTrades ==
    {[ok |-> TRUE, yes_price |-> 50, count |-> 1],
     [ok |-> TRUE, yes_price |-> 53, count |-> 2]}

MarkoutTimes == {0, 1, 2}

\* the frames load_data returns: books whose mid moves, and trades before the move
MarkoutInit ==
    /\ \E st \in SeqsUpTo(MarkoutTimes \X MarkoutBooks, MaxMarkoutSnapshots) :
          /\ st # <<>>
          /\ snapshots_df = OrderByTimestamp(TableRows(st))
    /\ \E tt \in SeqsUpTo(TradeTimes \X MarkoutTrades, MaxTrades) :
          /\ tt # <<>>
          /\ trades_df = OrderByTimestamp(TableRows(tt))
    /\ merged_df = <<>>
    /\ pc = "loaded"
    /\ snapshot_rows = snapshots_df
    /\ ImbalanceIdle
    /\ ScriptsIdle
    /\ EngineInit
    /\ ClientIdle

\* process_data run on books whose mid moves after the trades
SpecMarkouts == MarkoutInit /\ [][NextAnalysis]_vars

MaxPermutedRows == 3   \* rows of a frame handed to process_data in any order

\* a frame whose rows carry distinct timestamps
DistinctTimestamps(seq) ==
    \A i, j \in 1..Len(seq) : (i # j) => (seq[i][1] # seq[j][1])

\* the frame of a sequence of rows, the id being the position in the frame
FrameOf(seq) ==
    [i \in 1..Len(seq) |-> [id |-> i, timestamp |-> seq[i][1], data |-> seq[i][2]]]

\* process_data called on frames whose rows stand in any order
PermutedInit ==
    /\ \E st \in SeqsUpTo(SnapshotTimes \X SnapshotPayloads, MaxPermutedRows) :
          /\ st # <<>>
          /\ DistinctTimestamps(st)
          /\ snapshots_df = FrameOf(st)
    /\ \E tt \in SeqsUpTo(TradeTimes \X TradePayloads, MaxPermutedRows) :
          /\ tt # <<>>
          /\ DistinctTimestamps(tt)
          /\ trades_df = FrameOf(tt)
    /\ merged_df = <<>>
    /\ pc = "loaded"
    /\ snapshot_rows = snapshots_df
    /\ ImbalanceIdle
    /\ ScriptsIdle
    /\ EngineInit
    /\ ClientIdle

\* process_data run on frames in any row order
SpecPermuted == PermutedInit /\ [][NextAnalysis]_vars

----------------------------------------------------------------------------
(* analyze_slippage.py: plot_results, the hourly markout curves *)

MaxHourTrades == 6   \* trades read for the hourly curves

\* df['datetime'].dt.floor('h'), as epoch seconds
HourOf(timestamp) == (timestamp \div 3600) * 3600

\* sorted(df['hour_bucket'].unique()), as a set
UniqueHours(df) == {HourOf(df[i].timestamp) : i \in 1..Len(df)}

\* hourly_groups.get_group(hour)
GetGroup(df, hour) == {r \in {df[i] : i \in 1..Len(df)} : HourOf(r.timestamp) = hour}

\* an hour of exactly five trades skipped as well
SkipHourAtFive(group_df) == Cardinality(group_df) <= 5

\* if len(group_df) < 5: continue
SkipHour(group_df) == Cardinality(group_df) < 5

RECURSIVE SumMarkout(_, _)
SumMarkout(rows, h) ==
    IF rows = {} THEN 0
    ELSE LET r == CHOOSE x \in rows : TRUE
         IN  Num(r.markout[h]) + SumMarkout(rows \ {r}, h)

RECURSIVE SumWeighted(_, _)
SumWeighted(rows, h) ==
    IF rows = {} THEN 0
    ELSE LET r == CHOOSE x \in rows : TRUE
         IN  Num(r.markout[h]) * r.count + SumWeighted(rows \ {r}, h)

RECURSIVE SumCount(_)
SumCount(rows) ==
    IF rows = {} THEN 0
    ELSE LET r == CHOOSE x \in rows : TRUE
         IN  r.count + SumCount(rows \ {r})

\* group_df[col].mean(): the mean of the values present, as <<sum, number>>, NaN when
\* none is present
MeanMarkout(group_df, h) ==
    LET present == {r \in group_df : ~ IsNaN(r.markout[h])}
    IN  IF present = {} THEN NaN
        ELSE Val(<<SumMarkout(present, h), Cardinality(present)>>)

\* np.average(group_df[col], weights=group_df['count']) when the counts sum to more
\* than 0, else 0: as <<weighted sum, sum of weights>>, NaN when a value is missing
WeightedMarkout(group_df, h) ==
    IF SumCount(group_df) > 0
    THEN (IF \E r \in group_df : IsNaN(r.markout[h]) THEN NaN
          ELSE Val(<<SumWeighted(group_df, h), SumCount(group_df)>>))
    ELSE Val(<<0, 1>>)

\* plots 4 and 5 of plot_results: one curve per hour bucket that is not skipped
PlotHourly ==
    /\ pc = "done"
    /\ LET plotted == {hour \in UniqueHours(merged_df) :
                          ~ SkipHour(GetGroup(merged_df, hour))}
       IN  hourly' =
               [by_trade |-> [hour \in plotted |-> [h \in IntervalSet |->
                                 MeanMarkout(GetGroup(merged_df, hour), h)]],
                by_volume |-> [hour \in plotted |-> [h \in IntervalSet |->
                                 WeightedMarkout(GetGroup(merged_df, hour), h)]]]
    /\ pc' = "plotted"
    /\ UNCHANGED <<trades_df, snapshots_df, merged_df, snapshot_rows, imbalanceVars,
                   engineVars, clientVars, metrics_df, df_resampled, correlations,
                   base_ticker, trade_tickers, linked_ticker>>

\* trade times on both sides of an hour boundary, five in each hour
HourTimes == 3595..3604

\* the trade stored at a time: at 45, the mid of the book, or at 40
TradeAt(t) ==
    IF t % 2 = 0 THEN [ok |-> TRUE, yes_price |-> 45, count |-> 1]
    ELSE [ok |-> TRUE, yes_price |-> 40, count |-> 3]

\* the frames load_data returns: one book of mid 45 persisted at 3598, and trades at
\* some of the times, stored as they happened
HourlyInit ==
    /\ snapshots_df = OrderByTimestamp(TableRows(
           <<<<3598, [ok |-> TRUE, yes |-> <<<<40, 5>>>>, no |-> <<<<50, 2>>>>]>>>>))
    /\ \E S \in SUBSET HourTimes :
          /\ S # {} /\ Cardinality(S) <= MaxHourTrades
          /\ trades_df = OrderByTimestamp(
                 {[id |-> Cardinality({u \in S : u <= t}), timestamp |-> t,
                   data |-> TradeAt(t)] : t \in S})
    /\ merged_df = <<>>
    /\ pc = "loaded"
    /\ snapshot_rows = snapshots_df
    /\ ImbalanceIdle
    /\ ScriptsIdle
    /\ EngineInit
    /\ ClientIdle

NextHourly == PrepareFrames \/ MergeAndSlippage \/ Markouts \/ PlotHourly

\* process_data and the hourly curves of plot_results, on the trades of two hours
SpecHourly == HourlyInit /\ [][NextHourly]_vars

----------------------------------------------------------------------------
(* imbalance_predictability.py: calculate_metrics and analyze_predictability *)

MaxGridSnapshots == 3   \* rows of orderbook_snapshots read for the ticker

\* horizons = [1, 5, 30, 60, 120, 300]
horizons == <<1, 5, 30, 60, 120, 300>>
HorizonSet == {horizons[k] : k \in 1..Len(horizons)}

\* timestamps of the rows: a second apart, a gap, and beyond the longest horizon
GridTimes == {0, 1, 3, 301}

\* snapshot_data of a row: JSON that does not parse, a book with one side empty, a
\* book whose two best levels have size 0, and two books with sizes on both sides
GridPayloads ==
    {[ok |-> FALSE, yes |-> <<>>, no |-> <<>>],
     [ok |-> TRUE, yes |-> <<<<10, 1>>>>, no |-> <<>>],
     [ok |-> TRUE, yes |-> <<<<40, 0>>>>, no |-> <<<<50, 0>>>>],
     [ok |-> TRUE, yes |-> <<<<40, 5>>, <<45, 3>>>>, no |-> <<<<50, 2>>, <<58, 10>>>>],
     [ok |-> TRUE, yes |-> <<<<50, 4>>>>, no |-> <<<<44, 0>>>>]}

\* the last level taken as the best one
BestLevelLast(levels) == levels[Len(levels)]

\* max(levels, key=lambda x: x[0]): the first level of the greatest price
BestLevel(levels) ==
    LET top == MaxOf({levels[i][1] : i \in 1..Len(levels)})
    IN  levels[MinOf({i \in 1..Len(levels) : levels[i][1] = top})]

\* parse_snapshot: best bid price and size, best ask price and size; NaN for an
\* empty side, and four NaN when json.loads raises
parse_snapshot(data) ==
    IF ~ data.ok THEN [bid_price |-> NaN, bid_size |-> NaN, ask_price |-> NaN, ask_size |-> NaN]
    ELSE LET yes_levels == data.yes
             no_levels == data.no
         IN  [bid_price |-> IF yes_levels # <<>> THEN Val(BestLevel(yes_levels)[1]) ELSE NaN,
              bid_size  |-> IF yes_levels # <<>> THEN Val(BestLevel(yes_levels)[2]) ELSE NaN,
              ask_price |-> IF no_levels # <<>> THEN Val(100 - BestLevel(no_levels)[1]) ELSE NaN,
              ask_size  |-> IF no_levels # <<>> THEN Val(BestLevel(no_levels)[2]) ELSE NaN]

\* 0 / 0 taken to be 0
DivideZeroAsZero(num, den) == IF den = 0 THEN Val(<<0, 1>>) ELSE Val(<<num, den>>)

\* num / den on two columns of sizes, kept as the pair <<num, den>>: pandas gives NaN
\* for 0 / 0 and raises nothing. The sizes are not negative, so den = 0 only with
\* num = 0.
Divide(num, den) == IF den = 0 THEN NaN ELSE Val(<<num, den>>)

\* calculate_metrics: the parsed columns, the rows without a bid or an ask price
\* dropped, mid_price (kept doubled) and imbalance
calculate_metrics(df) ==
    LET parsed == [i \in 1..Len(df) |->
                      LET l1 == parse_snapshot(df[i].data)
                      IN  [id |-> df[i].id, timestamp |-> df[i].timestamp,
                           bid_price |-> l1.bid_price, bid_size |-> l1.bid_size,
                           ask_price |-> l1.ask_price, ask_size |-> l1.ask_size]]
        kept == DropNa(DropNa(parsed, "bid_price"), "ask_price")
    IN  [i \in 1..Len(kept) |->
            [id |-> kept[i].id, timestamp |-> kept[i].timestamp,
             bid_price |-> kept[i].bid_price, bid_size |-> kept[i].bid_size,
             ask_price |-> kept[i].ask_price, ask_size |-> kept[i].ask_size,
             mid_price |-> Val(Num(kept[i].bid_price) + Num(kept[i].ask_price)),
             imbalance |-> Divide(Num(kept[i].bid_size) - Num(kept[i].ask_size),
                                  Num(kept[i].bid_size) + Num(kept[i].ask_size))]]

Monotonic(df) ==
    \A i, j \in 1..Len(df) : (i < j) => (df[i].timestamp <= df[j].timestamp)

\* df.sort_index(): a frame whose index is already increasing is returned as it is,
\* any other is sorted by the default quicksort
SortIndex(df) == IF Monotonic(df) THEN {df} ELSE SortValues(df)

RECURSIVE SelectRows(_, _)
SelectRows(df, keep) ==
    IF df = <<>> THEN <<>>
    ELSE IF keep[1] THEN <<Head(df)>> \o SelectRows(Tail(df), Tail(keep))
         ELSE SelectRows(Tail(df), Tail(keep))

\* of the rows of a repeated timestamp the first one kept
KeepFirst(df) ==
    SelectRows(df, [i \in 1..Len(df) |->
                      ~ \E j \in 1..Len(df) : j < i /\ df[j].timestamp = df[i].timestamp])

\* df[~df.index.duplicated(keep='last')]
KeepLast(df) ==
    SelectRows(df, [i \in 1..Len(df) |->
                      ~ \E j \in 1..Len(df) : j > i /\ df[j].timestamp = df[i].timestamp])

\* resample('1s').ffill(): one row per second from the first to the last timestamp,
\* holding mid_price and imbalance of the last row at or before that second. asof_ts
\* names the timestamp of the row the values were taken from.
Resampled(df) ==
    IF df = <<>> THEN <<>>
    ELSE LET first == df[1].timestamp
             last == df[Len(df)].timestamp
         IN  [k \in 1..(last - first + 1) |->
                 LET pos == MergeAsof(df, first + k - 1)
                 IN  [timestamp |-> first + k - 1,
                      mid_price |-> df[pos].mid_price,
                      imbalance |-> df[pos].imbalance,
                      asof_ts |-> df[pos].timestamp,
                      ret |-> [h \in {} |-> NaN]]]

\* the value h - 1 rows further down
ShiftedShort(df, col, k, h) ==
    IF k + h - 1 <= Len(df) THEN df[k + h - 1][col] ELSE NaN

\* df[col].shift(-h) at row k: the value h rows further down, NaN past the end
Shifted(df, col, k, h) ==
    IF k + h <= Len(df) THEN df[k + h][col] ELSE NaN

\* a - b on two float columns
Minus(a, b) == IF IsNaN(a) \/ IsNaN(b) THEN NaN ELSE Val(Num(a) - Num(b))

\* main up to calculate_metrics
CalculateMetrics ==
    /\ pc = "snapshots_loaded"
    /\ metrics_df' = calculate_metrics(snapshot_rows)
    /\ pc' = "metrics"
    /\ UNCHANGED <<trades_df, snapshots_df, merged_df, snapshot_rows, imbalanceVars,
                   engineVars, clientVars, hourly, df_resampled, correlations,
                   base_ticker, trade_tickers, linked_ticker>>

\* analyze_predictability: the index sorted, repeated timestamps reduced to the last
\* row, and the frame resampled onto the 1-second grid
Resample ==
    /\ pc = "metrics"
    /\ \E sorted \in SortIndex(metrics_df) :
          df_resampled' = Resampled(KeepLast(sorted))
    /\ pc' = "resampled"
    /\ UNCHANGED <<trades_df, snapshots_df, merged_df, snapshot_rows, imbalanceVars,
                   engineVars, clientVars, hourly, metrics_df, correlations,
                   base_ticker, trade_tickers, linked_ticker>>

\* analyze_predictability: for each horizon the forward return column, and the rows
\* Series.corr takes: those with both an imbalance and a return
ForwardReturns ==
    /\ pc = "resampled"
    /\ df_resampled' =
           [k \in 1..Len(df_resampled) |->
               [df_resampled[k] EXCEPT
                   !.ret = [h \in HorizonSet |->
                               Minus(Shifted(df_resampled, "mid_price", k, h),
                                     df_resampled[k].mid_price)]]]
    /\ correlations' =
           [h \in HorizonSet |->
               {k \in 1..Len(df_resampled) :
                   ~ IsNaN(df_resampled'[k].imbalance) /\ ~ IsNaN(df_resampled'[k].ret[h])}]
    /\ pc' = "returns"
    /\ UNCHANGED <<trades_df, snapshots_df, merged_df, snapshot_rows, imbalanceVars,
                   engineVars, clientVars, hourly, metrics_df,
                   base_ticker, trade_tickers, linked_ticker>>

\* the frame load_snapshots returns for the ticker
PredictabilityInit ==
    /\ \E st \in SeqsUpTo(GridTimes \X GridPayloads, MaxGridSnapshots) :
          /\ st # <<>>
          /\ snapshot_rows = OrderByTimestamp(TableRows(st))
    /\ pc = "snapshots_loaded"
    /\ trades_df = <<>>
    /\ snapshots_df = <<>>
    /\ merged_df = <<>>
    /\ ImbalanceIdle
    /\ ScriptsIdle
    /\ EngineInit
    /\ ClientIdle

NextPredictability == CalculateMetrics \/ Resample \/ ForwardReturns

\* imbalance_predictability run on the snapshots of one ticker
SpecPredictability == PredictabilityInit /\ [][NextPredictability]_vars

----------------------------------------------------------------------------
(* analyze_imbalance.py: process_trades and the combined cumulative volume *)

MaxBaseTrades == 2     \* trades of the base ticker
MaxLinkedTrades == 1   \* trades of the linked ticker

\* the taker_side of a trade: a JSON string (<<"">> when the key is absent, the
\* default of data.get) or null
NullSide == <<>>
TakerSides == {<<"yes">>, <<"no">>, <<"YES">>, <<"No">>, <<"maybe">>, <<"">>, NullSide}

\* str.lower() on the strings above
Lower(str) ==
    IF str = "YES" THEN "yes"
    ELSE IF str = "No" THEN "no"
    ELSE str

\* trade_data: JSON that does not parse, or one carrying count (0 when absent) and
\* taker_side
SidePayloads ==
    {[ok |-> FALSE, count |-> 0, taker_side |-> <<"">>]}
    \cup [ok : {TRUE}, count : {0, 3, 7}, taker_side : TakerSides]

\* the payloads the two tapes are made of
TapePayloads ==
    {[ok |-> FALSE, count |-> 0, taker_side |-> <<"">>],
     [ok |-> TRUE, count |-> 7, taker_side |-> <<"yes">>],
     [ok |-> TRUE, count |-> 7, taker_side |-> <<"no">>],
     [ok |-> TRUE, count |-> 3, taker_side |-> <<"no">>],
     [ok |-> TRUE, count |-> 3, taker_side |-> <<"maybe">>]}

TapeTimes == {1, 2}

\* get_trade_details of process_trades: (count, taker_side), or (0, '') when
\* json.loads or .lower() raises
imbalance_trade_details(trade_json) ==
    IF ~ trade_json.ok THEN <<0, "">>
    ELSE IF trade_json.taker_side = NullSide THEN <<0, "">>
    ELSE <<trade_json.count, Lower(trade_json.taker_side[1])>>

\* np.where(side == 'yes', count, np.where(side == 'no', -count, 0))
SignedVolume(count, taker_side) ==
    IF taker_side = "yes" THEN count
    ELSE IF taker_side = "no" THEN 0 - count
    ELSE 0

\* the inversion left out
process_trades_never_inverted(df, is_inverse) ==
    [i \in 1..Len(df) |->
        LET details == imbalance_trade_details(df[i].data)
        IN  [id |-> df[i].id, timestamp |-> df[i].timestamp, data |-> df[i].data,
             source |-> "", count |-> details[1], taker_side |-> details[2],
             signed_volume |-> SignedVolume(details[1], details[2])]]

\* process_trades: an empty frame for an empty one, else the columns count,
\* taker_side and signed_volume, the latter negated when is_inverse
process_trades(df, is_inverse) ==
    [i \in 1..Len(df) |->
        LET details == imbalance_trade_details(df[i].data)
            signed == SignedVolume(details[1], details[2])
        IN  [id |-> df[i].id, timestamp |-> df[i].timestamp, data |-> df[i].data,
             source |-> "", count |-> details[1], taker_side |-> details[2],
             signed_volume |-> IF is_inverse THEN 0 - signed ELSE signed]]

\* df['source'] = ticker
WithSource(df, ticker) == [i \in 1..Len(df) |-> [df[i] EXCEPT !.source = ticker]]

\* Series.cumsum(): the running sum down the frame
RECURSIVE CumSum(_, _)
CumSum(df, k) == IF k = 0 THEN 0 ELSE CumSum(df, k - 1) + df[k].signed_volume

\* base_trades = process_trades(base_trades, is_inverse=False), with its source
ProcessBase ==
    /\ pc = "tapes_loaded"
    /\ base_trades' = WithSource(process_trades(base_trades, FALSE), "base")
    /\ pc' = "base_processed"
    /\ UNCHANGED <<linked_trades, combined_df, trades_df, snapshots_df, merged_df,
                   snapshot_rows, engineVars, clientVars, scriptVars>>

\* with a linked ticker: its trades processed with is_inverse=True and
\* pd.concat([base_trades, linked_trades], ignore_index=True); without one the
\* combined frame is the base frame
ProcessLinked ==
    /\ pc = "base_processed"
    /\ linked_trades' = WithSource(process_trades(linked_trades, TRUE), "linked")
    /\ combined_df' = base_trades \o linked_trades'
    /\ pc' = "combined"
    /\ UNCHANGED <<base_trades, trades_df, snapshots_df, merged_df,
                   snapshot_rows, engineVars, clientVars, scriptVars>>

\* exit(0) on an empty combined frame, else sort_values('timestamp') and cumsum
SortAndCumulate ==
    /\ pc = "combined"
    /\ IF combined_df = <<>>
       THEN /\ pc' = "no_trades"
            /\ UNCHANGED combined_df
       ELSE /\ \E sorted \in SortValues(combined_df) :
                  combined_df' =
                      [i \in 1..Len(sorted) |->
                          [id |-> sorted[i].id, timestamp |-> sorted[i].timestamp,
                           data |-> sorted[i].data, source |-> sorted[i].source,
                           count |-> sorted[i].count, taker_side |-> sorted[i].taker_side,
                           signed_volume |-> sorted[i].signed_volume,
                           cumulative_volume |-> CumSum(sorted, i)]]
            /\ pc' = "cumulated"
    /\ UNCHANGED <<base_trades, linked_trades, trades_df, snapshots_df, merged_df,
                   snapshot_rows, engineVars, clientVars, scriptVars>>

\* the frames load_trades returns, of the given tapes
TapesLoaded(base, linked) ==
    /\ base_trades = OrderByTimestamp(TableRows(base))
    /\ linked_trades = OrderByTimestamp(TableRows(linked))
    /\ combined_df = <<>>
    /\ pc = "tapes_loaded"
    /\ trades_df = <<>>
    /\ snapshots_df = <<>>
    /\ merged_df = <<>>
    /\ snapshot_rows = <<>>
    /\ ScriptsIdle
    /\ EngineInit
    /\ ClientIdle

ImbalanceInit ==
    \E base \in SeqsUpTo(TapeTimes \X TapePayloads, MaxBaseTrades),
       linked \in SeqsUpTo(TapeTimes \X TapePayloads, MaxLinkedTrades) :
        TapesLoaded(base, linked)

NextImbalance == ProcessBase \/ ProcessLinked \/ SortAndCumulate

\* analyze_imbalance run on the tapes of a base ticker and of its linked ticker
SpecImbalance == ImbalanceInit /\ [][NextImbalance]_vars

\* one trade on each tape, of any payload
SignedVolumeInit ==
    \E b \in SidePayloads, l \in SidePayloads :
        TapesLoaded(<<<<1, b>>>>, <<<<1, l>>>>)

\* analyze_imbalance run on one base trade and one linked trade
SpecSignedVolume == SignedVolumeInit /\ [][NextImbalance]_vars

----------------------------------------------------------------------------
(* analyze_slippage.py and imbalance_predictability.py run on one table *)

MaxExtractorRows == 2   \* rows of orderbook_snapshots the two scripts read

ExtractorTimes == {1, 2}

\* snapshot_data of a row: JSON that does not parse, books with levels on both sides in
\* ascending, descending and mixed price order, and books with one side empty
ExtractorPayloads ==
    {[ok |-> FALSE, yes |-> <<>>, no |-> <<>>],
     [ok |-> TRUE, yes |-> <<<<40, 5>>, <<45, 3>>>>, no |-> <<<<50, 2>>, <<58, 10>>>>],
     [ok |-> TRUE, yes |-> <<<<45, 3>>, <<40, 5>>>>, no |-> <<<<58, 10>>, <<50, 2>>>>],
     [ok |-> TRUE, yes |-> <<<<20, 1>>, <<30, 2>>, <<10, 4>>>>, no |-> <<<<99, 0>>>>],
     [ok |-> TRUE, yes |-> <<<<10, 1>>>>, no |-> <<>>],
     [ok |-> TRUE, yes |-> <<>>, no |-> <<<<30, 2>>>>]}

\* imbalance_predictability.main started on the ticker analyze_slippage has processed:
\* load_snapshots reads the same rows in the same order
LoadSnapshotsAgain ==
    /\ pc = "done"
    /\ pc' = "snapshots_loaded"
    /\ UNCHANGED <<trades_df, snapshots_df, merged_df, snapshot_rows, imbalanceVars,
                   engineVars, clientVars, scriptVars>>

\* the frames load_data returns for a ticker
ExtractorsInit ==
    /\ \E st \in SeqsUpTo(ExtractorTimes \X ExtractorPayloads, MaxExtractorRows) :
          /\ st # <<>>
          /\ snapshots_df = OrderByTimestamp(TableRows(st))
    /\ \E tr \in TradeTimes \X TradePayloads : trades_df = FrameOf(<<tr>>)
    /\ merged_df = <<>>
    /\ pc = "loaded"
    /\ snapshot_rows = snapshots_df
    /\ ImbalanceIdle
    /\ ScriptsIdle
    /\ EngineInit
    /\ ClientIdle

NextExtractors ==
    PrepareFrames \/ MergeAndSlippage \/ Markouts \/ LoadSnapshotsAgain \/ CalculateMetrics

\* both scripts run, one after the other, on the snapshots of one ticker
SpecExtractors == ExtractorsInit /\ [][NextExtractors]_vars

----------------------------------------------------------------------------
(* analyze_imbalance.py: find_linked_ticker *)

\* tickers are sequences of characters: E-A, E-B, E-A-X, E2-A, EA, e-b, F-A, -A
TickerPool ==
    {<<"E", "-", "A">>, <<"E", "-", "B">>, <<"E", "-", "A", "-", "X">>,
     <<"E", "2", "-", "A">>, <<"E", "A">>, <<"e", "-", "b">>, <<"F", "-", "A">>,
     <<"-", "A">>}

\* '-' in base_ticker
HasHyphen(ticker) == \E i \in 1..Len(ticker) : ticker[i] = "-"

\* base_ticker.rsplit('-', 1)[0]: everything before the last hyphen
EventPrefix(ticker) ==
    SubSeq(ticker, 1, MaxOf({i \in 1..Len(ticker) : ticker[i] = "-"}) - 1)

\* the upper case of an ASCII letter
Fold(c) ==
    IF c = "a" THEN "A" ELSE IF c = "b" THEN "B" ELSE IF c = "e" THEN "E"
    ELSE IF c = "f" THEN "F" ELSE IF c = "x" THEN "X" ELSE c

\* one character of a LIKE pattern against one of the text: '_' matches any, and
\* ASCII letters match without regard to case
LikeChar(p, c) == p = "_" \/ Fold(p) = Fold(c)

\* ticker LIKE event_prefix || '%', the prefix holding no '%'
LikePrefix(event_prefix, ticker) ==
    /\ Len(ticker) >= Len(event_prefix)
    /\ \A i \in 1..Len(event_prefix) : LikeChar(event_prefix[i], ticker[i])

\* linked_tickers: the tickers the query returns, the base ticker filtered out
LinkedTickers(stored, base) ==
    {t \in stored : LikePrefix(EventPrefix(base), t) /\ t # base}

\* find_linked_ticker: None (<<>>) for a ticker without a hyphen or without a match,
\* else linked_tickers[0]; the query has no ORDER BY, so any row may come first
find_linked_ticker(stored, base) ==
    IF ~ HasHyphen(base) THEN {<<>>}
    ELSE IF LinkedTickers(stored, base) = {} THEN {<<>>}
    ELSE {<<t>> : t \in LinkedTickers(stored, base)}

\* __main__ step 1
FindLinked ==
    /\ pc = "find_linked"
    /\ linked_ticker' \in find_linked_ticker(trade_tickers, base_ticker)
    /\ pc' = "linked_found"
    /\ UNCHANGED <<trades_df, snapshots_df, merged_df, snapshot_rows, imbalanceVars,
                   engineVars, clientVars, hourly, metrics_df, df_resampled,
                   correlations, base_ticker, trade_tickers>>

\* the script started on a base ticker over a trades table holding some tickers
LinkedInit ==
    /\ base_ticker \in TickerPool
    /\ trade_tickers \in SUBSET TickerPool
    /\ linked_ticker = <<>>
    /\ pc = "find_linked"
    /\ hourly = <<>>
    /\ metrics_df = <<>>
    /\ df_resampled = <<>>
    /\ correlations = <<>>
    /\ trades_df = <<>>
    /\ snapshots_df = <<>>
    /\ merged_df = <<>>
    /\ snapshot_rows = <<>>
    /\ ImbalanceIdle
    /\ EngineInit
    /\ ClientIdle

NextLinked == FindLinked

\* find_linked_ticker run for a base ticker
SpecLinked == LinkedInit /\ [][NextLinked]_vars

----------------------------------------------------------------------------
(* Order Book State Engine: claims *)

LastRow == orderbook_snapshots[Len(orderbook_snapshots)]

\* the book the last call was made on, as it is after the call
CalledBook == orderbook_state[last_call.ticker]

\* the (price, size) pairs a dict holds, and those an array lists
PairsOf(d) == {<<p, d[p]>> : p \in DOMAIN d}
Range(a) == {a[i] : i \in 1..Len(a)}

StrictlyAscending(a) == \A i, j \in 1..Len(a) : (i < j) => (a[i][1] < a[j][1])

\* the array lists every level of the dict once, ascending by price
Serialises(a, d) ==
    /\ Len(a) = Cardinality(DOMAIN d)
    /\ Range(a) = PairsOf(d)
    /\ StrictlyAscending(a)

\* C1: fed deltas only, from the empty engine, every stored level has size > 0.
C1_DeltasKeepSizesPositive ==
    \A t \in DOMAIN orderbook_state : \A side \in Sides :
        \A p \in DOMAIN orderbook_state[t][side] : orderbook_state[t][side][p] > 0

\* a delta took a stored level below zero and the level is gone
C1_Witness ==
    /\ last_call.op = "delta"
    /\ last_call.current_size > 0
    /\ last_call.current_size + last_call.delta < 0
    /\ last_call.price \notin DOMAIN CalledBook[last_call.side]

\* C2: after any interleaving of snapshot and delta messages, the snapshot levels
\* being any PriceLevels (size 0 included), no level is stored with size <= 0.
C2_NoLevelStoredAtZero ==
    \A t \in DOMAIN orderbook_state : \A side \in Sides :
        ~ \E p \in DOMAIN orderbook_state[t][side] : orderbook_state[t][side][p] <= 0

\* C3: after initializeFromSnapshot the market's yes and no maps hold exactly the
\* (price, size) pairs of the message's two arrays, whatever the market held before.
C3_SnapshotOverwritesPriorState ==
    (last_call.op = "snapshot") =>
        \A side \in Sides :
            PairsOf(CalledBook[side]) = Range(DictGet(LastRow.snapshot_data, side, <<>>))

\* C4: applyDelta computes new = current size (0 if absent) + delta; the level is
\* absent afterwards when new <= 0 and holds exactly new otherwise.
C4_DeltaSetsOrRemovesLevel ==
    (last_call.op = "delta") =>
        LET new == last_call.current_size + last_call.delta
            d == CalledBook[last_call.side]
        IN  IF new <= 0
            THEN last_call.price \notin DOMAIN d
            ELSE last_call.price \in DOMAIN d /\ d[last_call.price] = new

\* a delta of -currentSize removed a stored level
C4_Witness ==
    /\ last_call.op = "delta"
    /\ last_call.current_size > 0
    /\ last_call.delta = 0 - last_call.current_size
    /\ last_call.price \notin DOMAIN CalledBook[last_call.side]

\* C5: every applyDelta persists exactly one row, for its ticker, whose yes and no
\* arrays are the whole post-update book of the market, strictly ascending by price.
C5_DeltaPersistsFullSortedBook ==
    [][ApplyDelta =>
        /\ Len(orderbook_snapshots') = Len(orderbook_snapshots) + 1
        /\ SubSeq(orderbook_snapshots', 1, Len(orderbook_snapshots)) = orderbook_snapshots
        /\ LET row == orderbook_snapshots'[Len(orderbook_snapshots')]
               book == orderbook_state'[last_call'.ticker]
           IN  /\ row.ticker = last_call'.ticker
               /\ DOMAIN row.snapshot_data = Sides
               /\ \A side \in Sides : Serialises(row.snapshot_data[side], book[side])
      ]_vars

\* a delta was persisted for a book with two levels on the touched side and a
\* level on the other side
C5_Witness ==
    /\ last_call.op = "delta"
    /\ Len(LastRow.snapshot_data[last_call.side]) >= 2
    /\ \E side \in Sides \ {last_call.side} : Len(LastRow.snapshot_data[side]) >= 1

\* C6: the row persisted by initializeFromSnapshot is the canonical serialisation
\* of the market's in-memory book right after the call.
C6_SnapshotRowIsCanonical ==
    (last_call.op = "snapshot") =>
        \A side \in Sides :
            Serialises(DictGet(LastRow.snapshot_data, side, <<>>), CalledBook[side])

\* the rows of a ticker stamped at or before T
RowsUpTo(t, T) ==
    {i \in 1..Len(orderbook_snapshots) :
        orderbook_snapshots[i].ticker = t /\ orderbook_snapshots[i].timestamp <= T}

\* the lookup: the row with the greatest timestamp <= T, the latest inserted of them
LatestRowAt(t, T) ==
    LET top == MaxOf({orderbook_snapshots[i].timestamp : i \in RowsUpTo(t, T)})
    IN  MaxOf({i \in RowsUpTo(t, T) : orderbook_snapshots[i].timestamp = top})

\* the book a persisted row describes
BookOfRow(row) ==
    [yes |-> StoreLevels(EmptyMap, DictGet(row.snapshot_data, "yes", <<>>)),
     no  |-> StoreLevels(EmptyMap, DictGet(row.snapshot_data, "no", <<>>))]

\* C7: for every market and time T, the row with the greatest timestamp <= T is the
\* book produced by the last mutation applied to the market among those stamped <= T.
C7_LatestRowIsLastAppliedState ==
    \A t \in Tickers : \A T \in Times :
        (RowsUpTo(t, T) # {}) =>
            BookOfRow(orderbook_snapshots[LatestRowAt(t, T)]) = applied[MaxOf(RowsUpTo(t, T))]

\* a step of update_orderbook_state, and one of initialize_orderbook_from_snapshot:
\* a row is added and last_call names the call
DeltaStep == orderbook_snapshots' # orderbook_snapshots /\ last_call'.op = "delta"
SnapshotStep == orderbook_snapshots' # orderbook_snapshots /\ last_call'.op = "snapshot"

\* C25 as stated: every delta whose timestamp is missing or does not parse is applied
\* and persisted with the wall-clock time, and each such substitution is observable:
\* the step differs, in what the engine holds and persists, from every step that
\* applies a delta carrying a timestamp that parses.
C25_FallbackIsCounted ==
    [][\A t \in Tickers : \A m \in DeltaMsgs :
          (m.ts.kind # "iso" /\ update_orderbook_state(t, m)) =>
              /\ orderbook_snapshots'[Len(orderbook_snapshots')].timestamp = now
              /\ ~ \E m2 \in DeltaMsgs :
                      m2.ts.kind = "iso" /\ update_orderbook_state(t, m2)
      ]_vars

\* orderbook_snapshot with both arrays empty
EmptySnapshotMsg == [yes |-> <<>>, no |-> <<>>]

\* an empty book after one delta: the level when the delta is positive, else nothing
FreshBook(side, price, delta) ==
    [yes |-> IF side = "yes" /\ delta > 0 THEN (price :> delta) ELSE EmptyMap,
     no  |-> IF side = "no" /\ delta > 0 THEN (price :> delta) ELSE EmptyMap]

\* C26: applyDelta for a ticker with no prior state creates an empty yes/no book and
\* applies the delta as on an empty book: the state and the persisted snapshot are
\* those of the same delta applied after an empty initializeFromSnapshot.
C26_DeltaOnUnknownTickerCreatesEmptyBook ==
    [][(DeltaStep /\ ~ last_call'.had_book) =>
          LET t == last_call'.ticker
              m == [price |-> last_call'.price, delta |-> last_call'.delta,
                    side |-> last_call'.side]
              after_empty ==
                  UpdatedState(InitializedState(orderbook_state, t, EmptySnapshotMsg), t, m)
              row == orderbook_snapshots'[Len(orderbook_snapshots')]
          IN  /\ t \notin DOMAIN orderbook_state
              /\ orderbook_state' = after_empty
              /\ orderbook_state'[t] = FreshBook(m.side, m.price, m.delta)
              /\ Len(orderbook_snapshots') = Len(orderbook_snapshots) + 1
              /\ row.ticker = t
              /\ row.snapshot_data = BookSnapshot(after_empty[t])
      ]_vars

\* a positive delta arrived for a ticker with no prior state while another ticker
\* held a book
C26_Witness ==
    /\ last_call.op = "delta" /\ ~ last_call.had_book
    /\ last_call.delta > 0
    /\ CalledBook = FreshBook(last_call.side, last_call.price, last_call.delta)
    /\ \E u \in DOMAIN orderbook_state : u # last_call.ticker

\* every ticker other than t has the book it had, or still none
OtherTickersUnchanged(t) ==
    \A u \in Tickers \ {t} :
        /\ (u \in DOMAIN orderbook_state') <=> (u \in DOMAIN orderbook_state)
        /\ (u \in DOMAIN orderbook_state) => (orderbook_state'[u] = orderbook_state[u])

\* C30: applyDelta(ticker, side, price, d) changes at most the entry (ticker, side,
\* price): every other price of that side, the whole opposite side of the market and
\* the books of all other tickers are unchanged (a market without a book counting as
\* empty); initializeFromSnapshot leaves every other ticker's book unchanged.
C30_MutationsTouchOnlyTheirEntry ==
    [][/\ DeltaStep =>
             LET t == last_call'.ticker
                 old == EnsureBook(orderbook_state, t)[t]
                 new == orderbook_state'[t]
             IN  /\ \A p \in (DOMAIN old[last_call'.side] \cup DOMAIN new[last_call'.side])
                                \ {last_call'.price} :
                        /\ p \in DOMAIN old[last_call'.side]
                        /\ p \in DOMAIN new[last_call'.side]
                        /\ new[last_call'.side][p] = old[last_call'.side][p]
                 /\ \A side \in Sides \ {last_call'.side} : new[side] = old[side]
                 /\ OtherTickersUnchanged(t)
       /\ SnapshotStep => OtherTickersUnchanged(last_call'.ticker)
      ]_vars

\* a delta changed one level of a side that holds another level, the opposite side
\* holding a level too
C30_Witness ==
    /\ last_call.op = "delta"
    /\ last_call.current_size + last_call.delta > 0
    /\ \E p \in DOMAIN CalledBook[last_call.side] : p # last_call.price
    /\ \E side \in Sides \ {last_call.side} : DOMAIN CalledBook[side] # {}

\* the left fold s := max(0, s + d) over the deltas, from 0
RECURSIVE LeftFold(_)
LeftFold(ds) ==
    IF ds = <<>> THEN 0
    ELSE LET s == LeftFold(SubSeq(ds, 1, Len(ds) - 1)) + ds[Len(ds)]
         IN  IF s > 0 THEN s ELSE 0

RECURSIVE PlainSum(_)
PlainSum(ds) == IF ds = <<>> THEN 0 ELSE ds[1] + PlainSum(Tail(ds))

\* the level the deltas went to is in the book
FoldLevelPresent ==
    /\ FoldLevel.ticker \in DOMAIN orderbook_state
    /\ FoldLevel.price \in DOMAIN orderbook_state[FoldLevel.ticker][FoldLevel.side]

\* C31: starting from an empty book, after any sequence of deltas d1..dn on one
\* (ticker, side, price) the level is present iff the left fold s := max(0, s + di)
\* from s = 0 is positive, and its size is then that fold; the result depends on the
\* order of the deltas and is not in general their plain sum.
C31_LevelIsLeftFoldOfDeltas ==
    /\ FoldLevelPresent <=> (LeftFold(delta_log) > 0)
    /\ FoldLevelPresent =>
          orderbook_state[FoldLevel.ticker][FoldLevel.side][FoldLevel.price]
              = LeftFold(delta_log)

\* a level of size 3 was given -5 and then +3: it ends at 3, where the plain sum of
\* the deltas is 1
C31_Witness ==
    /\ delta_log = <<3, -5, 3>>
    /\ FoldLevelPresent
    /\ orderbook_state[FoldLevel.ticker][FoldLevel.side][FoldLevel.price] = 3
    /\ PlainSum(delta_log) = 1

----------------------------------------------------------------------------
(* Feed client: claims *)

HasBook(state, t) == t \in DOMAIN state

\* the number of rows a table holds for a ticker
RowCount(table, t) == Cardinality({i \in 1..Len(table) : table[i].ticker = t})

\* C11: once a market has received a closed or settled lifecycle message, no later
\* message changes its in-memory book or adds a row for it to trades or
\* orderbook_snapshots.
C11_TerminalMarketIsFrozen ==
    [][\A t \in determined_markets :
          /\ HasBook(orderbook_state', t) = HasBook(orderbook_state, t)
          /\ HasBook(orderbook_state, t) => (orderbook_state'[t] = orderbook_state[t])
          /\ RowCount(trades', t) = RowCount(trades, t)
          /\ RowCount(orderbook_snapshots', t) = RowCount(orderbook_snapshots, t)
      ]_vars

\* a trade, snapshot or delta message for a determined market that holds a book
\* was dropped
C11_Witness ==
    \E h \in Handlers :
        /\ handlers[h].pc = "return" /\ handlers[h].dropped
        /\ handlers[h].msg.type \in {"trade", "orderbook_snapshot", "orderbook_delta"}
        /\ handlers[h].msg.market_ticker \in determined_markets
        /\ HasBook(orderbook_state, handlers[h].msg.market_ticker)

UnsubscribeChannels == <<"trade", "orderbook_delta", "market_lifecycle_v2">>

\* the handler leaves the await of self.unsubscribe in this step
LeavesUnsubscribe(h) ==
    handlers[h].pc = "unsubscribe" /\ handlers'[h].pc # "unsubscribe"

\* the command for the market of the handler's message went out in this step
CommandSent(h) ==
    sent' = Append(sent, [id |-> message_id, cmd |-> "unsubscribe",
                          channels |-> UnsubscribeChannels,
                          market_tickers |-> <<handlers[h].msg.market_ticker>>])

\* the handling of a market's first terminal lifecycle message reaches unsubscribe
ReachesUnsubscribe ==
    \A t \in determined_markets' \ determined_markets :
        \E h \in Handlers :
            /\ handlers'[h].pc = "unsubscribe"
            /\ handlers'[h].msg.market_ticker = t

\* C12 as stated: when a market first receives a closed or settled lifecycle message,
\* the unsubscribe command naming it for the trade, orderbook_delta and
\* market_lifecycle_v2 channels is sent during the handling of that message.
C12_UnsubscribeAlwaysSent ==
    [][/\ ReachesUnsubscribe
       /\ \A h \in Handlers : LeavesUnsubscribe(h) => CommandSent(h)
      ]_vars

\* C12 as amended: during the handling of that message the engine attempts the send
\* of exactly that command; it goes out unless the send raises, and then nothing is
\* sent and the command id is not used up.
C12_UnsubscribeSentUnlessSendRaises ==
    [][/\ ReachesUnsubscribe
       /\ \A h \in Handlers :
             LeavesUnsubscribe(h) =>
                 \/ CommandSent(h) /\ message_id' = message_id + 1
                 \/ UNCHANGED <<sent, message_id>>
      ]_vars

\* the last of two markets was determined and its command, the second, went out
C12_Witness ==
    \E h \in Handlers :
        /\ handlers[h].pc = "close" /\ handlers[h].first_terminal
        /\ handlers[h].send = "sent"
        /\ Len(sent) = 2
        /\ sent[2].market_tickers = <<handlers[h].msg.market_ticker>>
        /\ sent[1].market_tickers # sent[2].market_tickers

AllIdle == \A h \in Handlers : handlers[h].pc = "idle"

\* C13: the connection is closed exactly when every subscribed market is terminal,
\* and the close happens in the handling of the message that made the last
\* subscribed market terminal.
C13_ClosesWhenLastMarketTerminates ==
    /\ ws_closed => (market_tickers \subseteq determined_markets)
    /\ (AllIdle /\ market_tickers \subseteq determined_markets) => ws_closed
    /\ \A h \in Handlers :
          /\ handlers[h].closed => handlers[h].emptied
          /\ (handlers[h].pc = "close") => (handlers[h].closed /\ ws_closed)

\* two markets were subscribed and the handler of the second terminal message closed
C13_Witness ==
    /\ market_tickers = Tickers
    /\ ws_closed
    /\ \E h \in Handlers :
          /\ handlers[h].pc = "close" /\ handlers[h].closed /\ handlers[h].emptied
          /\ Len(sent) < Cardinality(market_tickers)

\* the coroutine awaits the unsubscribe for market t
AwaitsUnsubscribe(h, t) ==
    handlers[h].pc = "unsubscribe" /\ handlers[h].msg.market_ticker = t

\* coroutine g takes a message for market t in this step
TakesMessageFor(g, t) ==
    /\ handlers[g].pc = "idle"
    /\ handlers'[g].pc # "idle"
    /\ handlers'[g].msg.market_ticker = t

\* C32: the market is marked determined before the handler suspends on the
\* unsubscribe: while a lifecycle handler awaits the unsubscribe for a market, the
\* market is in determined_markets, and a message for that market taken by another
\* handler is dropped: it changes no book and persists no row.
C32_MarkedBeforeSuspension ==
    [][\A h \in Handlers : \A t \in Tickers :
          /\ AwaitsUnsubscribe(h, t)' =>
                (t \in determined_markets' /\ t \notin active_markets')
          /\ AwaitsUnsubscribe(h, t) =>
                \A g \in Handlers \ {h} :
                    TakesMessageFor(g, t) =>
                        /\ handlers'[g].pc = "return" /\ handlers'[g].dropped
                        /\ UNCHANGED <<orderbook_state, orderbook_snapshots, trades>>
      ]_vars

\* while the unsubscribe for a market that holds a book is awaited, a delta for that
\* market was taken by another handler and dropped
C32_Witness ==
    \E h, g \in Handlers :
        /\ h # g
        /\ handlers[h].pc = "unsubscribe"
        /\ handlers[g].pc = "return" /\ handlers[g].dropped
        /\ handlers[g].msg.type = "orderbook_delta"
        /\ handlers[g].msg.market_ticker = handlers[h].msg.market_ticker
        /\ HasBook(orderbook_state, handlers[h].msg.market_ticker)

\* the unsubscribe commands sent for market t and those about to be sent
UnsubscribesFor(t) ==
    Cardinality({i \in 1..Len(sent) : sent[i].market_tickers = <<t>>})
      + Cardinality({h \in Handlers : AwaitsUnsubscribe(h, t)})

\* C33: terminal status is absorbing and the unsubscribe goes out at most once per
\* market: no message removes a ticker from determined_markets, a lifecycle message
\* with a non-terminal status included, and a repeated closed or settled message for
\* a determined market sends no further unsubscribe.
C33_TerminalIsAbsorbing ==
    [][/\ determined_markets \subseteq determined_markets'
       /\ \A t \in Tickers : UnsubscribesFor(t)' <= 1
       /\ \A g \in Handlers : \A t \in determined_markets :
             TakesMessageFor(g, t) => UNCHANGED <<sent, determined_markets>>
      ]_vars

\* the unsubscribe for a market went out, and a second closed or settled message for
\* it was dropped
C33_Witness ==
    \E g \in Handlers :
        /\ handlers[g].pc = "return" /\ handlers[g].dropped
        /\ handlers[g].msg.type = "market_lifecycle_v2"
        /\ handlers[g].msg.status \in TerminalStatuses
        /\ handlers[g].msg.market_ticker \in determined_markets
        /\ UnsubscribesFor(handlers[g].msg.market_ticker) = 1
        /\ \E i \in 1..Len(sent) : sent[i].market_tickers = <<handlers[g].msg.market_ticker>>

\* self.ws.close() is called in this step
CloseIssued == ws_closed' /\ ~ ws_closed

\* C34: the engine never closes the feed connection while a subscribed market is
\* still active: a close is issued only in a state where active_markets is empty,
\* also when terminal lifecycle messages arrive for tickers never subscribed.
C34_ClosesOnlyWhenNoneActive ==
    [][/\ CloseIssued => (active_markets = {} /\ active_markets' = {})
       /\ (active_markets' # {}) => ~ ws_closed'
      ]_vars

\* a closed or settled message for a ticker never subscribed was handled to its end,
\* its unsubscribe sent, and the connection stays open for the market still active
C34_Witness ==
    /\ AllIdle
    /\ ~ ws_closed
    /\ active_markets # {}
    /\ \E t \in determined_markets \ market_tickers :
          \E i \in 1..Len(sent) : sent[i].market_tickers = <<t>>

\* the send inside unsubscribe raised in this step: the handler leaves the await and
\* no command went out
SendFailed(h) == LeavesUnsubscribe(h) /\ sent' = sent

\* C35: a failure of the unsubscribe send neither undoes nor blocks the handling of
\* the termination: the market stays in determined_markets and out of
\* active_markets, the connection is still closed when it was the last active market,
\* and later messages for a determined market are still dropped.
C35_SendFailureDoesNotBlockTermination ==
    [][/\ \A h \in Handlers :
             SendFailed(h) =>
                 /\ UNCHANGED <<determined_markets, active_markets>>
                 /\ handlers[h].msg.market_ticker \in determined_markets'
                 /\ handlers[h].msg.market_ticker \notin active_markets'
                 /\ (active_markets = {}) => (ws_closed' /\ handlers'[h].pc = "close")
       /\ \A g \in Handlers : \A t \in determined_markets :
             TakesMessageFor(g, t) =>
                 (handlers'[g].dropped /\ handlers'[g].pc = "return")
      ]_vars

\* both subscribed markets turned terminal, no unsubscribe went out, and the
\* connection was closed in the handling of the second
C35_Witness ==
    /\ market_tickers = Tickers
    /\ determined_markets = Tickers
    /\ sent = <<>>
    /\ ws_closed
    /\ \E h \in Handlers : handlers[h].pc = "close" /\ handlers[h].send = "failed"

\* C36: in every reachable state of the client active_markets and determined_markets
\* are disjoint and active_markets is the initially subscribed tickers minus
\* determined_markets; active_markets never grows.
C36_ActiveIsSubscribedMinusDetermined ==
    /\ [](/\ active_markets \cap determined_markets = {}
          /\ active_markets = market_tickers \ determined_markets)
    /\ [][active_markets' \subseteq active_markets /\ market_tickers' = market_tickers]_vars

\* of two subscribed markets one has turned terminal and the other is active
C36_Witness ==
    /\ market_tickers = Tickers
    /\ Cardinality(determined_markets) = 1
    /\ Cardinality(active_markets) = 1
    /\ active_markets \cup determined_markets = market_tickers

\* C37: in every state between messages the rows of orderbook_snapshots number
\* snapshot_count + delta_count and the rows of trades number trade_count: each
\* snapshot or delta applied persists exactly one row, a delta that is a no-op on an
\* absent level included, each trade stored one row, and dropped or unknown messages
\* none.
C37_RowsEqualCountsBetweenMessages ==
    AllIdle =>
        /\ Len(orderbook_snapshots) = snapshot_count + delta_count
        /\ Len(trades) = trade_count
        /\ Len(applied) = Len(orderbook_snapshots)

\* between messages: a snapshot, then a delta of -1 on a level that is absent, each
\* with its row; a trade with its row; an unknown message with none
C37_Witness ==
    /\ AllIdle
    /\ snapshot_count = 1 /\ delta_count = 1 /\ Len(orderbook_snapshots) = 2
    /\ last_call.op = "delta" /\ last_call.current_size = 0 /\ last_call.delta = -1
    /\ orderbook_snapshots[2].snapshot_data = orderbook_snapshots[1].snapshot_data
    /\ trade_count = 1 /\ Len(trades) = 1
    /\ other_count = 1

\* the coroutine stands between the read of the current size and the persisting
InFlight(h) == handlers[h].pc \in {"delta_write", "delta_store"}

\* the level the coroutine's delta is about, as the book holds it
LevelNow(h) ==
    LET m == handlers[h].msg
    IN  DictGet(orderbook_state[m.market_ticker][m.body.side], m.body.price, 0)

\* C14: while one delta stands between its read, its write and its persisting, no
\* other handler runs or stands in a mutation, the size read is still the size in
\* the book when written, and the size written is the one persisted.
C14_OneMutationInFlight ==
    \A h \in Handlers :
        /\ InFlight(h) =>
              \A g \in Handlers \ {h} : handlers[g].pc \in {"idle", "unsubscribe", "close"}
        /\ (handlers[h].pc = "delta_write") => (handlers[h].current_size = LevelNow(h))
        /\ (handlers[h].pc = "delta_store") =>
              LET new_size == handlers[h].current_size + handlers[h].msg.body.delta
              IN  LevelNow(h) = IF new_size <= 0 THEN 0 ELSE new_size

\* a delta stands between write and persist while the coroutine of a lifecycle
\* message is suspended in its await
C14_Witness ==
    \E h, g \in Handlers :
        /\ handlers[h].pc = "delta_store"
        /\ handlers[h].current_size > 0
        /\ handlers[g].pc = "unsubscribe"

\* the coroutines that have committed their row and not yet counted it
Uncounted(types) ==
    Cardinality({h \in Handlers :
                    handlers[h].pc = "count" /\ handlers[h].msg.type \in types})

\* C15: every row is committed before its message is counted: at every point each
\* table holds a row for every message counted, and exceeds the count only by the
\* one message in flight.
C15_RowCommittedBeforeCounted ==
    /\ Len(trades) = trade_count + Uncounted({"trade"})
    /\ Len(orderbook_snapshots) =
          snapshot_count + delta_count + Uncounted({"orderbook_snapshot", "orderbook_delta"})
    /\ Uncounted({"trade", "orderbook_snapshot", "orderbook_delta"}) <= 1

\* a trade row is committed and not yet counted, after a snapshot and a delta were
C15_Witness ==
    /\ Uncounted({"trade"}) = 1
    /\ Len(trades) = trade_count + 1
    /\ snapshot_count = 1 /\ delta_count = 1

----------------------------------------------------------------------------
(* Temporal Alignment Engine: claims *)

MergedRows == {merged_df[i] : i \in 1..Len(merged_df)}
ValidSnapshots == {snapshots_df[i] : i \in 1..Len(snapshots_df)}

\* the payload a snapshot row was loaded with
LoadedData(id) ==
    (CHOOSE x \in {snapshot_rows[i] : i \in 1..Len(snapshot_rows)} : x.id = id).data

\* b is the greatest price of the levels, 0 when there are none
IsBestBid(b, levels) ==
    IF levels = <<>> THEN b = 0
    ELSE /\ \E i \in 1..Len(levels) : levels[i][1] = b
         /\ \A i \in 1..Len(levels) : levels[i][1] <= b

\* a is 100 minus the greatest price of the levels, 100 when there are none
IsBestAsk(a, levels) ==
    IF levels = <<>> THEN a = 100
    ELSE /\ \E i \in 1..Len(levels) : 100 - levels[i][1] = a
         /\ \A i \in 1..Len(levels) : 100 - levels[i][1] >= a

\* C16: for every well-formed snapshot best_bid is the maximum YES price (0 when
\* there is none) and best_ask is 100 minus the maximum NO price (100 when there is
\* none), in whatever order the levels stand; YES=[[40,5],[45,3]], NO=[[50,2],[58,10]]
\* gives 45, 42 and twice the mid 87.
C16_BestPricesAreMaxima ==
    (pc # "loaded") =>
        \A row \in ValidSnapshots :
            LET data == LoadedData(row.id)
            IN  /\ IsBestBid(Num(row.best_bid), data.yes)
                /\ IsBestAsk(Num(row.best_ask), data.no)
                /\ row.mid_price = Val(Num(row.best_bid) + Num(row.best_ask))
                /\ ({data.yes[i] : i \in 1..Len(data.yes)} = {<<40, 5>>, <<45, 3>>}
                      /\ {data.no[i] : i \in 1..Len(data.no)} = {<<50, 2>>, <<58, 10>>})
                   => (row.best_bid = Val(45) /\ row.best_ask = Val(42)
                         /\ row.mid_price = Val(87))

\* the best prices of a book whose levels stand in descending order were taken
C16_Witness ==
    /\ pc # "loaded"
    /\ \E row \in ValidSnapshots :
          /\ LoadedData(row.id).yes = <<<<45, 3>>, <<40, 5>>>>
          /\ LoadedData(row.id).no = <<<<58, 10>>, <<50, 2>>>>
          /\ row.best_bid = Val(45) /\ row.best_ask = Val(42)

\* the loaded snapshot rows whose payload parses, and those at or before t
ParseableRows == {x \in {snapshot_rows[i] : i \in 1..Len(snapshot_rows)} : x.data.ok}
MalformedRows == {x \in {snapshot_rows[i] : i \in 1..Len(snapshot_rows)} : ~ x.data.ok}
ParseableUpTo(t) == {x \in ParseableRows : x.timestamp <= t}

\* the greatest timestamp of a non-empty set of rows
LatestTime(rows) == CHOOSE t \in {x.timestamp : x \in rows} : \A x \in rows : x.timestamp <= t

\* C17: a snapshot row that does not parse has no best bid, best ask or mid and is
\* never joined: each trade is joined, at trade time and at each horizon, to a
\* parseable row of the greatest timestamp at or before the query time, and every
\* trade gets its row even when no snapshot parses.
C17_MalformedSnapshotsAreSkipped ==
    /\ (pc # "loaded") => ({row.id : row \in ValidSnapshots} = {x.id : x \in ParseableRows})
    /\ (pc \in {"merged", "done"}) =>
          /\ Len(merged_df) = Len(trades_df)
          /\ \A r \in MergedRows :
                IF ParseableUpTo(r.timestamp) = {}
                THEN r.asof_id = 0 /\ IsNaN(r.mid_price)
                ELSE /\ \E x \in ParseableUpTo(r.timestamp) :
                           /\ x.id = r.asof_id
                           /\ x.timestamp = LatestTime(ParseableUpTo(r.timestamp))
                     /\ ~ IsNaN(r.mid_price)
    /\ (pc = "done") =>
          \A r \in MergedRows : \A h \in IntervalSet :
              IF ParseableUpTo(r.timestamp + h) = {}
              THEN IsNaN(r.future_ts[h]) /\ IsNaN(r.future_mid[h])
              ELSE /\ r.future_ts[h] = Val(LatestTime(ParseableUpTo(r.timestamp + h)))
                   /\ ~ IsNaN(r.future_mid[h])

\* a horizon join passed over a malformed row that is later than the row it took
C17_Witness ==
    /\ pc = "done"
    /\ \E r \in MergedRows : \E h \in IntervalSet : \E x \in MalformedRows :
          /\ ~ IsNaN(r.future_ts[h])
          /\ Num(r.future_ts[h]) < x.timestamp
          /\ x.timestamp <= r.timestamp + h

\* C8: for every trade at time t and every horizon h, the snapshot used as mid at
\* trade time has timestamp <= t and the one used as future mid has timestamp <= t + h.
C8_NoLookahead ==
    \A r \in MergedRows :
        /\ IsNaN(r.asof_ts) \/ Num(r.asof_ts) <= r.timestamp
        /\ IsNaN(r.asof_ts) => IsNaN(r.mid_price)
        /\ \A h \in DOMAIN r.future_ts :
              /\ IsNaN(r.future_ts[h]) \/ Num(r.future_ts[h]) <= r.timestamp + h
              /\ IsNaN(r.future_ts[h]) => IsNaN(r.future_mid[h])

\* a trade was joined at trade time; at one horizon a snapshot later than the query
\* time stood in the frame, and at a longer horizon that later snapshot was joined
C8_Witness ==
    /\ pc = "done"
    /\ \E r \in MergedRows :
          /\ ~ IsNaN(r.asof_ts)
          /\ \E h \in IntervalSet :
                /\ ~ IsNaN(r.future_ts[h])
                /\ \E sn \in ValidSnapshots : sn.timestamp > r.timestamp + h
          /\ \E h \in IntervalSet :
                /\ ~ IsNaN(r.future_ts[h])
                /\ Num(r.future_ts[h]) > r.timestamp

\* the valid snapshots at or before t
SnapshotsUpTo(t) == {sn \in ValidSnapshots : sn.timestamp <= t}

\* the one with the greatest timestamp, the last persisted of those sharing it
LatestSnapshot(S) ==
    CHOOSE sn \in S : \A other \in S :
        \/ other.timestamp < sn.timestamp
        \/ (other.timestamp = sn.timestamp /\ other.id <= sn.id)

\* C9: the as-of join selects the valid snapshot with the greatest timestamp <= t,
\* and among several snapshots sharing that timestamp the one persisted last.
C9_AsofSelectsLatestPersisted ==
    (pc \in {"merged", "done"}) =>
        \A r \in MergedRows :
            IF SnapshotsUpTo(r.timestamp) = {}
            THEN IsNaN(r.mid_price)
            ELSE r.mid_price = LatestSnapshot(SnapshotsUpTo(r.timestamp)).mid_price

\* C10: a trade whose timestamp precedes every valid snapshot is excluded: it has no
\* slippage and no markout at any horizon, and is not recorded with a zero markout.
C10_UnmatchedTradeHasNoMarkout ==
    (pc = "done") =>
        \A r \in MergedRows :
            (SnapshotsUpTo(r.timestamp) = {}) =>
                /\ IsNaN(r.slippage)
                /\ \A h \in IntervalSet : IsNaN(r.markout[h])

----------------------------------------------------------------------------
(* Microstructure Metrics Engine: claims *)

\* the side a payload names, case folded: "yes", "no", or "unknown" for any other,
\* missing, null or unparseable side
NamedSide(data) ==
    IF ~ data.ok \/ data.taker_side = NullSide THEN "unknown"
    ELSE IF data.taker_side[1] \in {"yes", "YES"} THEN "yes"
    ELSE IF data.taker_side[1] \in {"no", "No"} THEN "no"
    ELSE "unknown"

\* +count for yes, -count for no, 0 otherwise
SideVolume(data) ==
    IF NamedSide(data) = "yes" THEN data.count
    ELSE IF NamedSide(data) = "no" THEN 0 - data.count
    ELSE 0

FrameRows(df) == {df[i] : i \in 1..Len(df)}

\* C18: process_trades gives each trade +count when taker_side is yes, -count when
\* it is no and 0 for any other, missing or unparseable side; with is_inverse every
\* value is negated: an inverted no-side trade of count 7 gives +7, an unknown side 0.
C18_SignedVolumeBySide ==
    /\ (pc \in {"base_processed", "combined", "cumulated"}) =>
          \A r \in FrameRows(base_trades) : r.signed_volume = SideVolume(r.data)
    /\ (pc \in {"combined", "cumulated"}) =>
          \A r \in FrameRows(linked_trades) :
              /\ r.signed_volume = 0 - SideVolume(r.data)
              /\ (r.data.ok /\ r.data.taker_side = <<"no">> /\ r.data.count = 7)
                    => (r.signed_volume = 7)
              /\ (NamedSide(r.data) = "unknown") => (r.signed_volume = 0)

\* an inverted no-side trade of count 7 was processed next to a yes-side base trade
C18_Witness ==
    /\ pc = "cumulated"
    /\ \E r \in FrameRows(linked_trades) :
          r.data.ok /\ r.data.taker_side = <<"no">> /\ r.data.count = 7 /\ r.signed_volume = 7
    /\ \E r \in FrameRows(base_trades) :
          r.data.ok /\ r.data.taker_side = <<"yes">> /\ r.data.count = 7 /\ r.signed_volume = 7

\* the sum of the un-inverted signed volumes of the first k rows of a frame
RECURSIVE SideVolumeSum(_, _)
SideVolumeSum(df, k) ==
    IF k = 0 THEN 0 ELSE SideVolumeSum(df, k - 1) + SideVolume(df[k].data)

\* the value each row adds to the combined curve
Contribution(r) ==
    IF r.source = "linked" THEN 0 - SideVolume(r.data) ELSE SideVolume(r.data)

RECURSIVE ContributionSum(_, _)
ContributionSum(df, k) ==
    IF k = 0 THEN 0 ELSE ContributionSum(df, k - 1) + Contribution(df[k])

\* C19: the combined curve is the running sum, in non-decreasing timestamp order,
\* over the base rows and the sign-inverted linked rows, each row once; at the final
\* trade it equals the sum of the base signed volumes minus the sum of the linked
\* market's un-inverted signed volumes.
C19_CombinedCurveIsRunningSum ==
    (pc = "cumulated") =>
        /\ Len(combined_df) = Len(base_trades) + Len(linked_trades)
        /\ \A r \in FrameRows(base_trades) \cup FrameRows(linked_trades) :
              \E i \in 1..Len(combined_df) :
                  combined_df[i].source = r.source /\ combined_df[i].id = r.id
        /\ \A i, j \in 1..Len(combined_df) :
              (i < j) => (combined_df[i].timestamp <= combined_df[j].timestamp)
        /\ \A i \in 1..Len(combined_df) :
              combined_df[i].cumulative_volume = ContributionSum(combined_df, i)
        /\ combined_df[Len(combined_df)].cumulative_volume =
              SideVolumeSum(base_trades, Len(base_trades))
                - SideVolumeSum(linked_trades, Len(linked_trades))

\* a linked trade fell in time before a base trade and both count in the final value
C19_Witness ==
    /\ pc = "cumulated"
    /\ \E i, j \in 1..Len(combined_df) :
          /\ i < j
          /\ combined_df[i].source = "linked" /\ combined_df[j].source = "base"
          /\ combined_df[i].timestamp < combined_df[j].timestamp
          /\ combined_df[i].signed_volume # 0 /\ combined_df[j].signed_volume # 0
    /\ combined_df[Len(combined_df)].cumulative_volume # 0

\* the absolute value of an integer
Abs(x) == IF x < 0 THEN 0 - x ELSE x

\* C20: for every trade joined to a mid-price, side is +1 when the execution price
\* is above the mid, -1 when below and 0 when equal; slippage is >= 0, strictly
\* positive for side +1 and -1, and slippage_paid = slippage * count. Prices are
\* compared doubled, as the mid is kept.
C20_SlippageIsNonNegative ==
    (pc \in {"merged", "done"}) =>
        \A r \in MergedRows :
            (~ IsNaN(r.mid_price)) =>
                LET gap == 2 * r.exec_price - Num(r.mid_price)
                IN  /\ (gap > 0) => (r.side = 1)
                    /\ (gap < 0) => (r.side = -1)
                    /\ (gap = 0) => (r.side = 0)
                    /\ r.slippage = Val(Abs(gap))
                    /\ Num(r.slippage) >= 0
                    /\ (r.side # 0) => (Num(r.slippage) > 0)
                    /\ r.slippage_paid = Val(Num(r.slippage) * r.count)

\* a trade executed exactly at the mid of the book it was joined to
C20_Witness ==
    /\ pc \in {"merged", "done"}
    /\ \E r \in MergedRows :
          /\ ~ IsNaN(r.mid_price) /\ 2 * r.exec_price = Num(r.mid_price)
          /\ r.side = 0 /\ r.slippage = Val(0) /\ r.count > 0

\* C21: for every trade and horizon h the markout is the future mid minus the
\* execution price when side is +1, the execution price minus the future mid when
\* side is -1 and 0 when side is 0, so a +1 and a -1 trade of the same execution
\* price and future mid have opposite markouts: execution 50 and future mid 53 give
\* +3 and -3 (6 and -6 doubled, as the mid is kept).
C21_MarkoutSignConvention ==
    (pc = "done") =>
        \A r \in MergedRows : \A h \in IntervalSet :
            /\ (r.side = 1 /\ ~ IsNaN(r.future_mid[h])) =>
                  (r.markout[h] = Val(Num(r.future_mid[h]) - 2 * r.exec_price))
            /\ (r.side = -1 /\ ~ IsNaN(r.future_mid[h])) =>
                  (r.markout[h] = Val(2 * r.exec_price - Num(r.future_mid[h])))
            /\ (r.side # 0 /\ IsNaN(r.future_mid[h])) => IsNaN(r.markout[h])
            /\ (r.side = 0) => (r.markout[h] = Val(0))
            /\ (r.exec_price = 50 /\ r.future_mid[h] = Val(106)) =>
                  /\ (r.side = 1) => (r.markout[h] = Val(6))
                  /\ (r.side = -1) => (r.markout[h] = Val(-6))
            /\ \A q \in MergedRows :
                  (/\ r.side = 1 /\ q.side = -1
                   /\ q.exec_price = r.exec_price
                   /\ q.future_mid[h] = r.future_mid[h]
                   /\ ~ IsNaN(r.future_mid[h])) =>
                      (Num(r.markout[h]) = 0 - Num(q.markout[h]))

\* a buy and a sell, both executed at 50, met the future mid 53 at one horizon
C21_Witness ==
    /\ pc = "done"
    /\ \E r, q \in MergedRows : \E h \in IntervalSet :
          /\ r.side = 1 /\ q.side = -1
          /\ r.exec_price = 50 /\ q.exec_price = 50
          /\ r.future_mid[h] = Val(106) /\ q.future_mid[h] = Val(106)
          /\ r.markout[h] = Val(6) /\ q.markout[h] = Val(-6)

\* the trades of the merged frame that fall in an hour
TradesInHour(hour) == {r \in MergedRows : HourOf(r.timestamp) = hour}

\* C22: in the per-trade and in the volume-weighted hourly curves an hour bucket is
\* reported if and only if it holds at least 5 trades: one of exactly 5 is included,
\* one of 4 is skipped, and trades of side 0 count toward the 5.
C22_HourlyBucketNeedsFiveTrades ==
    (pc = "plotted") =>
        /\ DOMAIN hourly.by_trade = DOMAIN hourly.by_volume
        /\ DOMAIN hourly.by_trade \subseteq {HourOf(r.timestamp) : r \in MergedRows}
        /\ \A r \in MergedRows :
              LET hour == HourOf(r.timestamp)
              IN  /\ (hour \in DOMAIN hourly.by_trade) <=>
                         (Cardinality(TradesInHour(hour)) >= 5)
                  /\ (Cardinality(TradesInHour(hour)) = 5) =>
                         (hour \in DOMAIN hourly.by_trade)
                  /\ (Cardinality(TradesInHour(hour)) = 4) =>
                         (hour \notin DOMAIN hourly.by_volume)

\* an hour of exactly five trades, four of them of side 0, was reported and the
\* next hour, of fewer trades, was skipped
C22_Witness ==
    /\ pc = "plotted"
    /\ \E a, b \in {HourOf(r.timestamp) : r \in MergedRows} :
          /\ Cardinality(TradesInHour(a)) = 5
          /\ Cardinality({r \in TradesInHour(a) : r.side = 0}) = 4
          /\ a \in DOMAIN hourly.by_trade /\ a \in DOMAIN hourly.by_volume
          /\ b > a /\ Cardinality(TradesInHour(b)) < 5
          /\ b \notin DOMAIN hourly.by_trade /\ b \notin DOMAIN hourly.by_volume

\* C27: for every base ticker and every set of tickers in the trade store, the ticker
\* find_linked_ticker returns, when not none, differs from the base ticker and is of
\* the same event: it has a final hyphen and what stands before it equals what stands
\* before the base ticker's final hyphen.
C27_LinkedTickerSharesEvent ==
    (pc = "linked_found" /\ linked_ticker # <<>>) =>
        /\ linked_ticker[1] # base_ticker
        /\ HasHyphen(linked_ticker[1])
        /\ EventPrefix(linked_ticker[1]) = EventPrefix(base_ticker)

\* the mid price of the valid snapshot with the greatest timestamp <= t, NaN when
\* there is none: a function of the set of snapshot rows, not of their order
MidAsOf(t) ==
    IF SnapshotsUpTo(t) = {} THEN NaN
    ELSE LatestSnapshot(SnapshotsUpTo(t)).mid_price

\* C28: process_data sorts both frames itself: for trades with distinct timestamps and
\* snapshots with distinct timestamps, the slippage and the markouts of each trade are
\* those of the set of input rows, the same for every permutation of the trade rows
\* and of the snapshot rows.
C28_ResultsIndependentOfRowOrder ==
    (pc = "done") =>
        /\ \A i, j \in 1..Len(merged_df) :
              (i < j) => (merged_df[i].timestamp < merged_df[j].timestamp)
        /\ \A r \in MergedRows :
              LET side == SideOf(r.exec_price, MidAsOf(r.timestamp))
              IN  /\ r.slippage = Slippage2(r.exec_price, MidAsOf(r.timestamp), side)
                  /\ \A h \in IntervalSet :
                        r.markout[h] = Markout2(r.exec_price, MidAsOf(r.timestamp + h), side)

\* both frames came out of order; a trade with a side met, at one horizon, two valid
\* snapshots of different mid prices, the later one standing first in the input
C28_Witness ==
    /\ pc = "done"
    /\ \E i, j \in 1..Len(merged_df) : i < j /\ merged_df[i].id > merged_df[j].id
    /\ \E r \in MergedRows : \E h \in IntervalSet : \E a, b \in ValidSnapshots :
          /\ r.side # 0
          /\ a.id < b.id
          /\ b.timestamp < a.timestamp
          /\ a.timestamp <= r.timestamp + h
          /\ a.mid_price # b.mid_price
          /\ r.future_mid[h] = a.mid_price

----------------------------------------------------------------------------
(* Order-book imbalance predictability: claims *)

MetricsRows == {metrics_df[i] : i \in 1..Len(metrics_df)}

\* of the snapshots that have a bid and an ask, those retained: for a repeated
\* timestamp the one persisted last
Retained ==
    {r \in MetricsRows : \A q \in MetricsRows : (q.timestamp = r.timestamp) => (q.id <= r.id)}

\* the retained snapshot of the greatest timestamp at or before second s
RetainedAt(s) ==
    CHOOSE r \in Retained :
        /\ r.timestamp <= s
        /\ \A q \in Retained : (q.timestamp <= s) => (q.timestamp <= r.timestamp)

BothSizesZero(r) == Num(r.bid_size) = 0 /\ Num(r.ask_size) = 0

\* C23: for top-of-book sizes bidSize >= 0 and askSize >= 0 not both zero the
\* imbalance is (bidSize - askSize) / (bidSize + askSize), kept as the pair of the
\* two, and |bidSize - askSize| <= bidSize + askSize; when both sizes are zero the
\* imbalance has no value and no grid second carrying that snapshot enters a
\* correlation.
C23_ImbalanceWithinUnitRange ==
    /\ \A r \in MetricsRows :
          LET bid == Num(r.bid_size)
              ask == Num(r.ask_size)
          IN  (bid >= 0 /\ ask >= 0) =>
                  IF BothSizesZero(r) THEN IsNaN(r.imbalance)
                  ELSE /\ r.imbalance = Val(<<bid - ask, bid + ask>>)
                       /\ Abs(bid - ask) <= bid + ask
                       /\ 0 - (bid + ask) <= bid - ask /\ bid - ask <= bid + ask
    /\ (pc = "returns") =>
          \A k \in 1..Len(df_resampled) : \A h \in HorizonSet :
              (k \in correlations[h]) =>
                  /\ ~ IsNaN(df_resampled[k].imbalance)
                  /\ ~ BothSizesZero(RetainedAt(df_resampled[k].timestamp))

\* the script ran to its end over a snapshot with both sizes zero: a grid second
\* carrying it has a return and is left out of the correlation, and a second with
\* imbalance 1 is in it
C23_Witness ==
    /\ pc = "returns"
    /\ \E k, j \in 1..Len(df_resampled) :
          /\ BothSizesZero(RetainedAt(df_resampled[k].timestamp))
          /\ IsNaN(df_resampled[k].imbalance)
          /\ ~ IsNaN(df_resampled[k].ret[1])
          /\ k \notin correlations[1]
          /\ j \in correlations[1]
          /\ df_resampled[j].imbalance = Val(<<4, 4>>)

\* C24: on the 1-second grid the (mid-price, imbalance) pair at every second s from
\* the first to the last snapshot is the pair of the retained snapshot with the
\* greatest timestamp <= s, only the last snapshot of a repeated timestamp being
\* retained; no second carries a value of a snapshot later than s.
C24_GridForwardFillsLastSnapshot ==
    (pc \in {"resampled", "returns"} /\ metrics_df # <<>>) =>
        LET first == MinOf({r.timestamp : r \in Retained})
            last == MaxOf({r.timestamp : r \in Retained})
        IN  /\ Len(df_resampled) = last - first + 1
            /\ \A k \in 1..Len(df_resampled) :
                  LET s == first + k - 1
                      g == df_resampled[k]
                  IN  /\ g.timestamp = s
                      /\ g.mid_price = RetainedAt(s).mid_price
                      /\ g.imbalance = RetainedAt(s).imbalance
                      /\ g.asof_ts = RetainedAt(s).timestamp
                      /\ g.asof_ts <= s

\* two snapshots of different mid shared a timestamp, and a later empty second was
\* filled with the mid of the second of them while a later snapshot was in the frame
C24_Witness ==
    /\ pc = "resampled"
    /\ \E i, j \in 1..Len(metrics_df) : \E k \in 1..Len(df_resampled) :
          /\ i < j
          /\ metrics_df[i].timestamp = metrics_df[j].timestamp
          /\ metrics_df[i].mid_price # metrics_df[j].mid_price
          /\ df_resampled[k].asof_ts = metrics_df[j].timestamp
          /\ df_resampled[k].asof_ts < df_resampled[k].timestamp
          /\ df_resampled[k].mid_price = metrics_df[j].mid_price
          /\ \E r \in MetricsRows :
                r.timestamp > df_resampled[k].timestamp /\ r.mid_price # metrics_df[j].mid_price

\* C29: on the grid the forward return at second t for each horizon h of 1, 5, 30,
\* 60, 120 and 300 is gridMid(t + h) - gridMid(t), the row exactly h grid steps
\* further down being the one of second t + h, and has no value for the last h
\* seconds; no grid value later than t + h is used. Mids are kept doubled.
C29_ForwardReturnIsFixedOffset ==
    (pc = "returns") =>
        \A k \in 1..Len(df_resampled) :
            /\ DOMAIN df_resampled[k].ret = {1, 5, 30, 60, 120, 300}
            /\ \A h \in {1, 5, 30, 60, 120, 300} :
                  IF k + h <= Len(df_resampled)
                  THEN /\ df_resampled[k + h].timestamp = df_resampled[k].timestamp + h
                       /\ df_resampled[k].ret[h] =
                             Val(Num(df_resampled[k + h].mid_price)
                                   - Num(df_resampled[k].mid_price))
                  ELSE IsNaN(df_resampled[k].ret[h])

\* a 300-second return was taken from a forward-filled second while the second after
\* it held another mid, and the last 300 seconds have no 300-second return
C29_Witness ==
    /\ pc = "returns"
    /\ Len(df_resampled) >= 302
    /\ ~ IsNaN(df_resampled[1].ret[300])
    /\ Num(df_resampled[1].ret[300]) # 0
    /\ df_resampled[301].asof_ts < df_resampled[301].timestamp
    /\ df_resampled[302].mid_price # df_resampled[301].mid_price
    /\ IsNaN(df_resampled[3].ret[300])
    /\ ~ IsNaN(df_resampled[3].ret[120])

\* the size standing at the greatest price of the levels
SizeAtMaxPrice(levels, size) ==
    \E i \in 1..Len(levels) :
        /\ levels[i][2] = size
        /\ \A j \in 1..Len(levels) : levels[j][1] <= levels[i][1]

\* the rows loaded with a well-formed snapshot that has a YES and a NO level
TwoSidedRows ==
    {r \in {snapshot_rows[i] : i \in 1..Len(snapshot_rows)} :
        r.data.ok /\ r.data.yes # <<>> /\ r.data.no # <<>>}

\* C38: the two best-price extractors agree wherever both are defined: for every
\* well-formed snapshot with at least one YES level and at least one NO level the best
\* bid price and best ask price of parse_snapshot equal best_bid and best_ask of
\* get_best_prices, and the sizes it returns are those of the max-price YES level and
\* of the max-price NO level.
C38_ExtractorsAgree ==
    (pc = "metrics") =>
        \A r \in TwoSidedRows :
            \E a \in ValidSnapshots : \E b \in MetricsRows :
                /\ a.id = r.id /\ b.id = r.id
                /\ b.bid_price = a.best_bid
                /\ b.ask_price = a.best_ask
                /\ SizeAtMaxPrice(r.data.yes, Num(b.bid_size))
                /\ SizeAtMaxPrice(r.data.no, Num(b.ask_size))

\* both scripts read a book whose best YES level stands neither first nor last and
\* gave the best bid 30, with size 2, and the best ask 1
C38_Witness ==
    /\ pc = "metrics"
    /\ \E r \in TwoSidedRows : \E a \in ValidSnapshots : \E b \in MetricsRows :
          /\ a.id = r.id /\ b.id = r.id
          /\ Len(r.data.yes) = 3
          /\ a.best_bid = Val(30) /\ b.bid_price = Val(30) /\ b.bid_size = Val(2)
          /\ a.best_ask = Val(1) /\ b.ask_price = Val(1) /\ b.ask_size = Val(0)

====
